---- MODULE Spec2Model ----
(***************************************************************************)
(* A model of the LISFLOOD river-channel routing module                    *)
(* (src/src/lisflood/hydrological_modules/routing.py).                     *)
(*                                                                         *)
(* Numbers.  The program computes in float64.  The model computes in      *)
(* fixed point over the integers: a discharge, a volume and a water depth  *)
(* are whole numbers of their own smallest unit, a dimensionless number    *)
(* (Courant, Reynolds, the Muskingum coefficients) is a whole number of    *)
(* hundredths (SC), a celerity a whole number of thousandths (CS).  The    *)
(* program's eps (1e-6), "the smallest quantity that is not zero", is one  *)
(* unit.  A division rounds toward zero, a power rounds as stated where    *)
(* it is defined.  The map value -9999 is itself.                          *)
(***************************************************************************)
EXTENDS Integers, Sequences, FiniteSets, TLC

\* ------------------------------------------------------------------------
\* Bounds of the model
\* ------------------------------------------------------------------------
NPix == 3
MaxSubSteps == 2
QTabMax == 30

\* ------------------------------------------------------------------------
\* Fixed-point arithmetic
\* ------------------------------------------------------------------------
SC == 10 ^ 2
CS == 10 ^ 3
AS == 10 ^ 1

Abs(x) == IF x < 0 THEN -x ELSE x
Max(a, b) == IF a >= b THEN a ELSE b
Min(a, b) == IF a <= b THEN a ELSE b

\* a / b of the program, rounded toward zero. numpy raises nothing on x / 0
\* and carries on with a non-finite value, which the integers do not have: it
\* is 0 here
Div(a, b) ==
    IF b = 0 THEN 0
    ELSE IF (a >= 0) = (b > 0) THEN Abs(a) \div Abs(b) ELSE -(Abs(a) \div Abs(b))

\* largest r with r^n <= x (x >= 0), by bisection below the largest root a
\* 32-bit integer has
RootMax(n) == CASE n = 2 -> 46340 [] n = 3 -> 1290 [] n = 5 -> 73 [] OTHER -> 14
RECURSIVE IRootIn(_, _, _, _)
IRootIn(x, n, lo, hi) ==
    IF lo >= hi THEN lo
    ELSE LET mid == (lo + hi + 1) \div 2
         IN  IF mid ^ n <= x THEN IRootIn(x, n, mid, hi)
             ELSE IRootIn(x, n, lo, mid - 1)
IRoot(x, n) == IRootIn(x, n, 0, RootMax(n))
ISqrt(x) == IRoot(x, 2)
ICbrt(x) == IRoot(x, 3)

\* (num/den) ** (3/5), rounded to nearest: half of the largest z with
\* z^5 * den^3 <= 2^5 * num^3
RECURSIVE Pow35From(_, _, _)
Pow35From(num, den, z) ==
    IF ((z + 1) ^ 5) * (den ^ 3) <= 32 * (num ^ 3)
    THEN Pow35From(num, den, z + 1) ELSE z
Pow35(num, den) == (Pow35From(num, den, 0) + 1) \div 2

\* (num/den) ** (2/5), rounded to nearest
RECURSIVE Pow25From(_, _, _)
Pow25From(num, den, z) ==
    IF ((z + 1) ^ 5) * (den ^ 2) <= 32 * (num ^ 2)
    THEN Pow25From(num, den, z + 1) ELSE z
Pow25(num, den) == (Pow25From(num, den, 0) + 1) \div 2

\* ------------------------------------------------------------------------
\* Cross-section hydraulics: cotan, qoh, hoq
\* The side angle ANalv = arctan(1/ChanSdXdY) is carried by its cotangent
\* ChanSdXdY: cotangent 0 is the right angle (rectangular section).
\* ------------------------------------------------------------------------
eps == 1
max_tries == 1000

cotan(ANalv) == ANalv
IsBelowRightAngle(ANalv) == ANalv > 0
\* sin(ANalv) in hundredths: 1 / sqrt(1 + cotan^2)
sinS(ANalv) == Div(SC * SC, ISqrt(SC * SC * (1 + ANalv * ANalv)))

qoh(y, s0, Balv, ANalv, Nalv) ==
    LET rs0 == ISqrt(s0)
        c == IF IsBelowRightAngle(ANalv) THEN cotan(ANalv) ELSE 0
        s == IF IsBelowRightAngle(ANalv) THEN sinS(ANalv) ELSE SC
        a == (Balv + y * c) * y
        b == Balv + 2 * y * c
        p == Balv + Div(2 * y * SC, s)
        R == Div(a * SC, p)
        R23 == ICbrt(R * R * SC)
        q == Div(rs0 * a * R23, Nalv * SC)
        t == 5 * SC - Div(4 * a * SC * SC, p * b * s)
        cel == Div(Div(q * CS, a) * t, 3 * SC)
    IN  [q |-> q, a |-> a, b |-> b, p |-> p, cel |-> cel]

\* the correction dy = fy / dfy of the depth, r the section at the depth
hoqCorrection(r, q) == Div((r.q - q) * CS, r.b * r.cel)

\* the loop stops when the correction has become too small
hoqConvergedLoosely(dy) == Abs(dy) <= eps
hoqConverged(dy) == Abs(dy) < eps

\* Newton-Raphson loop of hoq: for tries in range(1, max_tries)
RECURSIVE hoqLoop(_, _, _, _, _, _, _)
RECURSIVE hoqNewton(_, _, _, _, _, _, _, _)
\* one iteration, r the section at depth y: the step dy = fy / dfy and the exit test
hoqNewton(y, r, tries, q, s0, Balv, ANalv, Nalv) ==
    LET dy == hoqCorrection(r, q)
    IN  IF hoqConverged(dy) THEN y - dy
        ELSE hoqLoop(y - dy, tries + 1, q, s0, Balv, ANalv, Nalv)
hoqLoop(y, tries, q, s0, Balv, ANalv, Nalv) ==
    IF tries >= max_tries THEN y
    ELSE hoqNewton(y, qoh(y, s0, Balv, ANalv, Nalv), tries, q, s0, Balv, ANalv, Nalv)

hoqFirstGuess(q, s0, Balv, ANalv, Nalv) ==
    LET rs0 == ISqrt(s0)
        c == IF IsBelowRightAngle(ANalv) THEN cotan(ANalv) ELSE 0
        s == IF IsBelowRightAngle(ANalv) THEN sinS(ANalv) ELSE SC
        yTri == IRoot(Div((Nalv * q) ^ 3, (rs0 ^ 3) * (c ^ 5)) * Div(4 * SC * SC, s * s), 8)
        yRect == Pow35(Nalv * q, rs0 * Balv)
        y0 == IF Balv = 0 THEN yTri ELSE yRect
    IN  IF Balv # 0 /\ IsBelowRightAngle(ANalv)
        THEN Div(2 * Pow35(Nalv * q, rs0) * Pow25(Balv * s + 2 * y0 * SC, s) + (Balv + c * y0),
                 2 * (Balv + c * y0))
        ELSE y0

hoq(q, s0, Balv, ANalv, Nalv) ==
    hoqLoop(hoqFirstGuess(q, s0, Balv, ANalv, Nalv), 1, q, s0, Balv, ANalv, Nalv)

\* ------------------------------------------------------------------------
\* Pixels, channel geometry maps (loadmap) and the drainage network
\* ------------------------------------------------------------------------
Pixels == 1..NPix
NoPix == 0

\* loadmap: the maps of the model catchment
ChanLength == [p \in Pixels |-> 10]
PixelArea == [p \in Pixels |-> 100]
ChanBottomWidth == [p \in Pixels |-> 10]
ChanSdXdY == [p \in Pixels |-> IF p % 2 = 0 THEN 1 ELSE 0]
ChanDepthThreshold == [p \in Pixels |-> 2]
CalChanMan == [p \in Pixels |-> 1]
CalChanMan2 == [p \in Pixels |-> 2]
ChanManMap == [p \in Pixels |-> 8]
ChanGradMap == [p \in Pixels |-> 4]
ChanGradMin == [p \in Pixels |-> IF p = 1 THEN 5 ELSE IF p = NPix THEN 2 ELSE 1]
AvgDis == [p \in Pixels |-> 2]
QSplitMult == [p \in Pixels |-> 2]
\* the storage of the reservoir and of the lake of the catchment, at its last pixel
ReservoirStorageIniM3 == [p \in Pixels |-> IF p = NPix THEN 500 ELSE 0]
LakeStorageIniM3 == [p \in Pixels |-> IF p = NPix THEN 300 ELSE 0]
ReservoirStorageM3 == ReservoirStorageIniM3
LakeStorageM3Balance == LakeStorageIniM3
IsUpsOfStructureKinematicC == [p \in Pixels |-> p = NPix]
IsUpsOfStructureLake == [p \in Pixels |-> p = NPix]
LakeInflowCC == [p \in Pixels |-> 0]

\* the largest channel slope of an MCT pixel
MCTGradMax == 1

ChanMan == [p \in Pixels |-> CalChanMan[p] * ChanManMap[p]]

\* hoq over the discharges and cross-sections of the model, computed once
hoqTable ==
    [g \in {<<MCTGradMax, ChanBottomWidth[p], ChanSdXdY[p], ChanMan[p]>> : p \in Pixels},
     q \in 1..QTabMax |-> hoq(q, g[1], g[2], g[3], g[4])]
hoqOf(q, s0, Balv, ANalv, Nalv) ==
    IF <<<<s0, Balv, ANalv, Nalv>>, q>> \in DOMAIN hoqTable
    THEN hoqTable[<<s0, Balv, ANalv, Nalv>>, q]
    ELSE hoq(q, s0, Balv, ANalv, Nalv)

\* ------------------------------------------------------------------------
\* MCTRouting_single
\* ------------------------------------------------------------------------
\* the first guess O'(t+dt) = O(t) + (I(t+dt) - I(t)), not negative
MCTFirstGuess(q10, q01, q00) ==
    LET q11 == q10 + (q01 - q00) IN IF q11 < 0 THEN 0 ELSE q11

\* a reference discharge that is exactly zero becomes eps
RefDischargeAsIs(qa, qb) == Div(qa + qb, 2)
RefDischarge(qa, qb) ==
    LET qm == Div(qa + qb, 2) IN IF qm = 0 THEN eps ELSE qm

\* a negative outflow of a refinement pass becomes eps
ClampOutflowWrongSign(q11) == IF q11 < 0 THEN -eps ELSE q11
ClampOutflow(q11) == IF q11 < 0 THEN eps ELSE q11

\* a negative storage becomes zero
ClampStorage(V11) == IF V11 < 0 THEN 0 ELSE V11

\* the friction slope sfx of the reach, corrected by the water-depth gradient
\* and not below 0.8 * s0
MCTFrictionSlope(q11, q10, q01, q00, xpix, s0, Balv, ANalv, Nalv) ==
    Max(s0 * (SC - Div((hoqOf(RefDischarge(q10, q11), s0, Balv, ANalv, Nalv)
                        - hoqOf(RefDischarge(q00, q01), s0, Balv, ANalv, Nalv)) * SC,
                       s0 * xpix)),
        Div(8 * s0 * SC, 10))

\* the section at the depth of the reference discharge qm1 at time t+dt
MCTSection(qm1, s0, Balv, ANalv, Nalv) ==
    qoh(hoqOf(qm1, s0, Balv, ANalv, Nalv), s0, Balv, ANalv, Nalv)

\* the Courant number Cm1 and the Reynolds number Dm1 at t+dt, r the section at qm1
MCTNumbers(qm1, sfx, r, dt, xpix) ==
    LET ck1 == IF r.cel <= eps THEN eps ELSE r.cel
        Beta1 == Div(ck1 * r.a * SC, qm1 * CS)
    IN  [Dm1 |-> Div(Div(qm1 * SC * SC * CS, sfx * ck1 * r.b * xpix) * SC, Beta1),
         Cm1 |-> Div(Div(ck1 * dt * SC, xpix * CS) * SC, Beta1)]

\* the outflow from the coefficients c1..c4, n the numbers at t+dt
MCTOutflowSum(n, q10, q01, q00, ql, Cm0, Dm0) ==
    LET den == SC + n.Cm1 + n.Dm1
        c1 == Div((n.Cm1 + n.Dm1 - SC) * SC, den)
        c2 == Div(Div((SC + Cm0 - Dm0) * SC, den) * Div(n.Cm1 * SC, Cm0), SC)
        c3 == Div(Div((SC - Cm0 + Dm0) * SC, den) * Div(n.Cm1 * SC, Cm0), SC)
        c4 == Div(2 * n.Cm1 * SC, den)
    IN  Div(c1 * q01 + c2 * q00 + c3 * q10 + c4 * ql, SC)

MCTOutflow(n, q10, q01, q00, ql, Cm0, Dm0) ==
    [q11 |-> ClampOutflow(MCTOutflowSum(n, q10, q01, q00, ql, Cm0, Dm0)),
     Cm1 |-> n.Cm1, Dm1 |-> n.Dm1]

\* the numbers of one pass of the loop "for i in range(2)", q11 the outflow guess
MCTPassNumbers(q11, q10, q01, q00, dt, xpix, s0, Balv, ANalv, Nalv) ==
    MCTNumbers(RefDischarge(q01, q11),
               MCTFrictionSlope(q11, q10, q01, q00, xpix, s0, Balv, ANalv, Nalv),
               MCTSection(RefDischarge(q01, q11), s0, Balv, ANalv, Nalv),
               dt, xpix)

\* one pass of the loop "for i in range(2)": from the outflow guess q11 to
\* the next outflow, with the Courant and Reynolds numbers at t+dt
MCTPass(q11, q10, q01, q00, ql, Cm0, Dm0, dt, xpix, s0, Balv, ANalv, Nalv) ==
    MCTOutflow(MCTPassNumbers(q11, q10, q01, q00, dt, xpix, s0, Balv, ANalv, Nalv),
               q10, q01, q00, ql, Cm0, Dm0)

\* the channel storage at t+dt from the outflow and the numbers of the last pass
MCTStorage(p2, q01, dt) ==
    [q11 |-> p2.q11,
     V11 |-> ClampStorage(Div((SC - p2.Dm1) * dt * q01, 2 * p2.Cm1)
                          + Div((SC + p2.Dm1) * dt * p2.q11, 2 * p2.Cm1)),
     Cm1 |-> p2.Cm1, Dm1 |-> p2.Dm1]

MCTRouting_single(q10, q01, q00, ql, Cm0, Dm0, dt, xpix, s0, Balv, ANalv, Nalv) ==
    MCTStorage(MCTPass(MCTPass(MCTFirstGuess(q10, q01, q00), q10, q01, q00, ql, Cm0, Dm0,
                               dt, xpix, s0, Balv, ANalv, Nalv).q11,
                       q10, q01, q00, ql, Cm0, Dm0, dt, xpix, s0, Balv, ANalv, Nalv),
               q01, dt)

\* ------------------------------------------------------------------------
\* State
\* ------------------------------------------------------------------------
VARIABLES
    option,             \* settings.options
    binding,            \* settings.binding: the time steps and the initial-value maps
    Ldd,                \* local drain direction: the downstream pixel, NoPix at a pit
    IsChannelMCT,       \* map ChannelsMCT
    var,                \* self.var: maps, routing state, mass-balance diagnostics
    river_router,       \* self.river_router (kinematicWave)
    mct_river_router,   \* self.mct_river_router (mctWave)
    pc,                 \* "load", "run", "batch"
    NoRoutingExecuted,  \* index of the next routing sub-step in its time step
    subSteps,           \* routing sub-steps executed so far
    trace,              \* what the last call of routing.dynamic did
    noMB,               \* self.var of the same run with repMBTs off
    warm,               \* self.var of the same run, stopped and warm-started
    loop,               \* MCTRoutingLoop while the pixels of a batch are handled one by one
    call                \* a call of one function of the module on its own: arguments, locals, result

vars == <<option, binding, Ldd, IsChannelMCT, var, river_router, mct_river_router, pc,
          NoRoutingExecuted, subSteps, trace, noMB, warm, loop, call>>

\* ------------------------------------------------------------------------
\* Drainage network (pcraster: upstream, lddmask, pit, catchment)
\* ------------------------------------------------------------------------
IsChannel == [p \in Pixels |-> TRUE]

\* every forest over the pixels: no pixel reaches itself
RECURSIVE ReachesPit(_, _, _)
ReachesPit(ldd, p, n) ==
    IF ldd[p] = NoPix THEN TRUE
    ELSE IF n = 0 THEN FALSE ELSE ReachesPit(ldd, ldd[p], n - 1)
Forests ==
    {ldd \in [Pixels -> Pixels \cup {NoPix}] : \A p \in Pixels : ReachesPit(ldd, p, NPix)}

RECURSIVE SumOver(_, _)
SumOver(f, S) ==
    IF S = {} THEN 0
    ELSE LET x == CHOOSE y \in S : TRUE IN f[x] + SumOver(f, S \ {x})

UpstreamOf(ldd, p) == {u \in Pixels : ldd[u] = p}
\* upstream(ldd, X): at every pixel the sum of X over its direct upstream pixels
upstream(ldd, X) == [p \in Pixels |-> SumOver(X, UpstreamOf(ldd, p))]
\* lddmask(ldd, mask): the ldd cut to the mask; a pixel draining out of it is a pit
lddmask(ldd, mask) ==
    [p \in Pixels |-> IF mask[p] /\ ldd[p] # NoPix /\ mask[ldd[p]] THEN ldd[p] ELSE NoPix]

RECURSIVE OutletOf(_, _)
OutletOf(ldd, p) == IF ldd[p] = NoPix THEN p ELSE OutletOf(ldd, ldd[p])
\* np.take(np.bincount(Catchments, weights=X), Catchments)
CatchmentSum(ldd, X) ==
    [p \in Pixels |-> SumOver(X, {u \in Pixels : OutletOf(ldd, u) = OutletOf(ldd, p)})]
TotalOf(X) == SumOver(X, Pixels)

\* ------------------------------------------------------------------------
\* get_mct_pix / put_mct_pix
\* ------------------------------------------------------------------------
\* the pixels get_mct_pix keeps, in pixel order
RECURSIVE SortedSeq(_)
SortedSeq(S) ==
    IF S = {} THEN <<>>
    ELSE LET m == CHOOSE x \in S : \A y \in S : x <= y IN <<m>> \o SortedSeq(S \ {m})

\* the channel pixels where the kinematic wave is used in a run with MCT routing
IsChannelKinematicOf(channel, channelMCT) ==
    [p \in Pixels |-> channel[p] /\ ~channelMCT[p]]

MCTPixSeq(IsChannelKinematic) == SortedSeq({p \in Pixels : ~IsChannelKinematic[p]})

get_mct_pix(IsChannelKinematic, v) ==
    LET px == MCTPixSeq(IsChannelKinematic) IN [i \in 1..Len(px) |-> v[px[i]]]

put_mct_pix(IsChannelKinematic, y) ==
    LET px == MCTPixSeq(IsChannelKinematic)
    IN  [p \in Pixels |->
            IF IsChannelKinematic[p] THEN 0
            ELSE y[CHOOSE i \in 1..Len(px) : px[i] = p]]

\* ------------------------------------------------------------------------
\* mctWave: the routing order of the MCT pixels
\* ------------------------------------------------------------------------
\* streamLookups: the downstream pixel of every pixel of the compressed ldd
\* (0: none)
downstream_lookup(lddMCT, IsChannelKinematic) ==
    LET px == MCTPixSeq(IsChannelKinematic)
    IN  [i \in 1..Len(px) |->
            IF lddMCT[px[i]] = NoPix THEN 0
            ELSE CHOOSE j \in 1..Len(px) : px[j] = lddMCT[px[i]]]

\* topoDistFromSea: the number of pixels between a pixel and its outlet
RECURSIVE topoDist(_, _)
topoDist(dl, i) == IF dl[i] = 0 THEN 0 ELSE 1 + topoDist(dl, dl[i])
topoDistFromSea(dl) == [i \in DOMAIN dl |-> topoDist(dl, i)]

MaxOf(f) == IF DOMAIN f = {} THEN 0 ELSE CHOOSE m \in {f[i] : i \in DOMAIN f} : \A i \in DOMAIN f : f[i] <= m

routing_order_outlets_first(ocean_topo_distance) == ocean_topo_distance
routing_order_one_more(ocean_topo_distance) ==
    [i \in DOMAIN ocean_topo_distance |-> MaxOf(ocean_topo_distance) + 1 - ocean_topo_distance[i]]
routing_order(ocean_topo_distance) ==
    [i \in DOMAIN ocean_topo_distance |-> MaxOf(ocean_topo_distance) - ocean_topo_distance[i]]

\* sort_values(["order", "pixels"])
SortByPixelOnly(order, S) == SortedSeq(S)
RECURSIVE SortByOrder(_, _)
SortByOrder(order, S) ==
    IF S = {} THEN <<>>
    ELSE LET m == CHOOSE x \in S : \A y \in S :
                      order[x] < order[y] \/ (order[x] = order[y] /\ x <= y)
         IN  <<m>> \o SortByOrder(order, S \ {m})

\* the index of the series pixels_ordered: the order of every pixel, sorted.
\* squeeze() turns a table of one row into a bare number, and the series that
\* is then made of it has the index 0
pixels_ordered_index(order) ==
    LET sorted == SortByOrder(order, DOMAIN order)
    IN  IF Len(sorted) = 1 THEN <<0>> ELSE [k \in 1..Len(sorted) |-> order[sorted[k]]]

\* groupby(index).count().cumsum(), and the start of every order before its stop
order_start_stop(order) ==
    LET index == pixels_ordered_index(order)
        present == SortedSeq({index[k] : k \in DOMAIN index})
        stop == [k \in 1..Len(present) |->
                    Cardinality({j \in DOMAIN index : index[j] <= present[k]})]
    IN  [k \in 1..Len(present) |-> <<IF k = 1 THEN 0 ELSE stop[k - 1], stop[k]>>]

mctWave(lddMCT, IsChannelKinematic) ==
    LET dl == downstream_lookup(lddMCT, IsChannelKinematic)
        order == routing_order(topoDistFromSea(dl))
    IN  [downstream_lookup |-> dl,
         routing_order |-> order,
         pixels_ordered |-> SortByOrder(order, DOMAIN order),
         order_start_stop |-> order_start_stop(order)]

\* ------------------------------------------------------------------------
\* Kinematic wave: A = alpha * Q ** beta, beta = 3/5
\* ------------------------------------------------------------------------
QSolveMax == 60
\* largest depth of the table of the corrections of hoq
YTabMax == 100

\* Q ** Beta, rounded down
PowBeta(q) == IRoot(q ^ 3, 5)
\* x ** InvBeta, rounded up: PowBeta(PowInvBeta(x)) = x
PowInvBeta(x) == LET r == IRoot(x ^ 5, 3) IN IF r ^ 3 = x ^ 5 THEN r ELSE r + 1

PowBetaTable == [q \in 0..QSolveMax |-> PowBeta(q)]
PowBetaOf(q) == IF q \in DOMAIN PowBetaTable THEN PowBetaTable[q] ELSE PowBeta(q)

\* volume in a channel of length L carrying discharge Q
KinVolume(L, alpha, Q) == L * alpha * PowBetaOf(Q)
\* discharge of a channel of length L holding volume M3
KinDischargeNoExponent(L, alpha, M3) == Div(Div(M3, L), alpha)
KinDischarge(L, alpha, M3) == PowInvBeta(Div(Div(M3, L), alpha))

\* kinematicWave(ldd, land mask, alpha, beta, length, dt, alpha_floodplains)
kinematicWave(ldd, alpha, dt, alpha_floodplains) ==
    [ldd |-> ldd, alpha |-> alpha, dt |-> dt, alpha_floodplains |-> alpha_floodplains]

\* the 4-point implicit scheme at one pixel: the largest discharge whose outflow
\* and storage at t+dt are covered by the inflow, the storage at t and the
\* lateral inflow
KinSolve(dt, L, alpha, Qold, Qin, lat) ==
    LET rhs == dt * Qin + KinVolume(L, alpha, Qold) + Div(dt * L * lat, SC)
        ok == {Q \in 0..QSolveMax : dt * Q + KinVolume(L, alpha, Q) <= rhs}
    IN  IF ok = {} THEN 0 ELSE CHOOSE Q \in ok : \A Q2 \in ok : Q2 <= Q

RECURSIVE KinPixel(_, _, _, _, _)
KinPixel(rr, alpha, discharge, lateral_inflow, p) ==
    LET ups == UpstreamOf(rr.ldd, p)
        new == [u \in ups |-> KinPixel(rr, alpha, discharge, lateral_inflow, u)]
    IN  KinSolve(rr.dt, ChanLength[p], alpha[p], discharge[p], SumOver(new, ups),
                 lateral_inflow[p])

\* kinematicWaveRouting(discharge, lateral_inflow, section): the discharge at
\* t+dt of every pixel, upstream pixels first
kinematicWaveRouting(rr, discharge, lateral_inflow, section) ==
    LET alpha == IF section = "main_channel" THEN rr.alpha ELSE rr.alpha_floodplains
    IN  [p \in Pixels |-> KinPixel(rr, alpha, discharge, lateral_inflow, p)]

KINRouting(v, rr, ChanQKin, SideflowChan) ==
    LET routed == kinematicWaveRouting(rr, ChanQKin, SideflowChan, "main_channel")
        ChanM3Kin == [p \in Pixels |->
                         Max(KinVolume(ChanLength[p], v.ChannelAlpha[p], routed[p]), 0)]
    IN  [ChanQKin |-> [p \in Pixels |->
                          KinDischarge(ChanLength[p], v.ChannelAlpha[p], ChanM3Kin[p])],
         ChanM3Kin |-> ChanM3Kin]

\* sideflows smaller than this go to the main channel whole (1e-7)
SideflowMin == 2

\* the main channel's part of the storage of both lines
SideflowRatio(v) ==
    [p \in Pixels |->
        LET total == v.ChanM3Kin[p] + v.Chan2M3Kin[p]
        IN  IF total > 0 THEN Div(v.ChanM3Kin[p] * SC, total) ELSE 0]

Sideflow1ChanNoThreshold(v, SideflowChan) ==
    [p \in Pixels |->
        IF v.ChanM3Kin[p] + v.Chan2M3Kin[p] - v.Chan2M3Start[p] > v.M3Limit[p]
        THEN Div(SideflowRatio(v)[p] * SideflowChan[p], SC)
        ELSE SideflowChan[p]]

\* the share of the sideflow that enters the main channel
Sideflow1Chan(v, SideflowChan) ==
    [p \in Pixels |->
        LET shared == IF v.ChanM3Kin[p] + v.Chan2M3Kin[p] - v.Chan2M3Start[p] > v.M3Limit[p]
                      THEN Div(SideflowRatio(v)[p] * SideflowChan[p], SC)
                      ELSE SideflowChan[p]
        IN  IF Abs(SideflowChan[p]) < SideflowMin THEN SideflowChan[p] ELSE shared]

\* the floodplain line given the whole sideflow
Sideflow2ChanWhole(v, SideflowChan, s1) ==
    [p \in Pixels |-> SideflowChan[p] + Div(v.Chan2QStart[p] * SC, ChanLength[p])]

Sideflow2Chan(v, SideflowChan, s1) ==
    [p \in Pixels |->
        SideflowChan[p] - s1[p] + Div(v.Chan2QStart[p] * SC, ChanLength[p])]

\* total (virtual) volume in the second line: never below the bankfull volume
FloodplainVolumeNoFloor(Chan2M3Kin, Chan2M3Start) == Chan2M3Kin
FloodplainVolume(Chan2M3Kin, Chan2M3Start) ==
    IF Chan2M3Kin - Chan2M3Start < 0 THEN Chan2M3Start ELSE Chan2M3Kin

SplitRouting(v, rr, SideflowChan) ==
    LET s1 == Sideflow1Chan(v, SideflowChan)
        s2 == Sideflow2Chan(v, SideflowChan, s1)
        q1 == kinematicWaveRouting(rr, v.ChanQKin, s1, "main_channel")
        m1 == [p \in Pixels |-> Max(KinVolume(ChanLength[p], v.ChannelAlpha[p], q1[p]), 0)]
        q2 == kinematicWaveRouting(rr, v.Chan2QKin, s2, "floodplains")
        m2 == [p \in Pixels |->
                  FloodplainVolume(KinVolume(ChanLength[p], v.ChannelAlpha2[p], q2[p]),
                                   v.Chan2M3Start[p])]
    IN  [v EXCEPT
            !.Sideflow1Chan = s1,
            !.ChanM3Kin = m1,
            !.ChanQKin = [p \in Pixels |-> KinDischarge(ChanLength[p], v.ChannelAlpha[p], m1[p])],
            !.Chan2M3Kin = m2,
            !.CrossSection2Area = [p \in Pixels |->
                                      Div((m2[p] - v.Chan2M3Start[p]) * AS, ChanLength[p])],
            !.Chan2QKin = [p \in Pixels |-> KinDischarge(ChanLength[p], v.ChannelAlpha2[p], m2[p])]]

\* ------------------------------------------------------------------------
\* MCTRoutingLoop
\* ------------------------------------------------------------------------
ZeroMap == [p \in Pixels |-> 0]

\* the arrays of the loop, on the MCT pixels only; q01In records the inflow at
\* t+dt every pixel was routed with
MCTLoopStart(v, ChanQMCTOutStart, ChanQMCTInStart, ChanQKinOut, SideflowChanMCT) ==
    LET k == v.IsChannelKinematic
        q01 == get_mct_pix(k, upstream(v.LddChan, ChanQKinOut))
    IN  [xpix |-> get_mct_pix(k, ChanLength),
         s0 |-> get_mct_pix(k, v.ChanGrad),
         Balv |-> get_mct_pix(k, ChanBottomWidth),
         ANalv |-> get_mct_pix(k, ChanSdXdY),
         Nalv |-> get_mct_pix(k, ChanMan),
         dt |-> v.DtSecChannel,
         Cm0 |-> get_mct_pix(k, v.PrevCm0),
         Dm0 |-> get_mct_pix(k, v.PrevDm0),
         q00 |-> get_mct_pix(k, ChanQMCTInStart),
         q10 |-> get_mct_pix(k, ChanQMCTOutStart),
         q01 |-> q01,
         q11 |-> [i \in DOMAIN q01 |-> 0],
         V11 |-> [i \in DOMAIN q01 |-> 0],
         ql |-> get_mct_pix(k, SideflowChanMCT),
         ChanQOut |-> ChanQKinOut,
         q01In |-> [i \in DOMAIN q01 |-> 0]]

\* the results r of a pixel are stored at its index
MCTPixelStore(L, idpix, r) ==
    [L EXCEPT !.q11[idpix] = r.q11, !.V11[idpix] = r.V11,
              !.Cm0[idpix] = r.Cm1, !.Dm0[idpix] = r.Dm1,
              !.q01In[idpix] = L.q01[idpix]]

\* the body of the pixel loop
MCTPixelOtherIndex(L, idpix) ==
    LET other == IF idpix = 1 THEN Len(L.q01) ELSE idpix - 1
    IN  MCTPixelStore(L, idpix,
                      MCTRouting_single(L.q10[idpix], L.q01[idpix], L.q00[idpix], L.ql[idpix],
                                        L.Cm0[other], L.Dm0[other], L.dt, L.xpix[idpix],
                                        L.s0[idpix], L.Balv[idpix], L.ANalv[idpix],
                                        L.Nalv[idpix]))
MCTPixel(L, idpix) ==
    MCTPixelStore(L, idpix,
                  MCTRouting_single(L.q10[idpix], L.q01[idpix], L.q00[idpix], L.ql[idpix],
                                    L.Cm0[idpix], L.Dm0[idpix], L.dt, L.xpix[idpix],
                                    L.s0[idpix], L.Balv[idpix], L.ANalv[idpix], L.Nalv[idpix]))

\* after the pixels of an order: the inflow at t+dt of the pixels downstream
MCTOrderEnd(v, L) ==
    LET Q11 == put_mct_pix(v.IsChannelKinematic, L.q11)
        ChanQOut == [p \in Pixels |-> IF Q11[p] = 0 THEN L.ChanQOut[p] ELSE Q11[p]]
    IN  [L EXCEPT !.ChanQOut = ChanQOut,
                  !.q01 = get_mct_pix(v.IsChannelKinematic, upstream(v.LddChan, ChanQOut))]

RECURSIVE MCTPixels(_, _, _, _)
MCTPixels(L, mr, index, last) ==
    IF index >= last THEN L
    ELSE MCTPixels(MCTPixel(L, mr.pixels_ordered[index + 1]), mr, index + 1, last)

\* the orders from order to upto, in series
RECURSIVE MCTOrders(_, _, _, _, _)
MCTOrders(v, L, mr, order, upto) ==
    IF order > upto THEN L
    ELSE LET first == mr.order_start_stop[order][1]
             last == mr.order_start_stop[order][2]
         IN  MCTOrders(v, MCTOrderEnd(v, MCTPixels(L, mr, first, last)), mr, order + 1, upto)

MCTLoopResult(v, L) ==
    [ChanQMCTOut |-> put_mct_pix(v.IsChannelKinematic, L.q11),
     ChanM3MCTOut |-> put_mct_pix(v.IsChannelKinematic, L.V11),
     Cmout |-> put_mct_pix(v.IsChannelKinematic, L.Cm0),
     Dmout |-> put_mct_pix(v.IsChannelKinematic, L.Dm0),
     q01In |-> put_mct_pix(v.IsChannelKinematic, L.q01In),
     dt |-> L.dt]

MCTRoutingLoop(v, mr, ChanQMCTOutStart, ChanQMCTInStart, ChanQKinOut, SideflowChanMCT) ==
    MCTLoopResult(v, MCTOrders(v, MCTLoopStart(v, ChanQMCTOutStart, ChanQMCTInStart,
                                                ChanQKinOut, SideflowChanMCT),
                               mr, 1, Len(mr.order_start_stop)))

\* ------------------------------------------------------------------------
\* routing.initial, routing.initialSecond, routing.initialMCT
\* ------------------------------------------------------------------------
NoValue == -9999
Unset == <<>>

\* self.var before the routing module has set anything
VarUnset ==
    [DtSec |-> Unset, DtSecChannel |-> Unset, NoRoutSteps |-> Unset, DtRouting |-> Unset,
     IsChannelKinematic |-> Unset, IsChannelMCT |-> Unset,
     LddChan |-> Unset, LddKinematic |-> Unset, LddMCT |-> Unset,
     ChanGrad |-> Unset, ChannelAlpha |-> Unset, ChannelAlpha2 |-> Unset,
     TotalCrossSectionArea |-> Unset, CrossSection2Area |-> Unset, Sideflow1Chan |-> Unset,
     ChanM3 |-> Unset, ChanIniM3 |-> Unset, ChanM3Kin |-> Unset, ChanQKin |-> Unset,
     ChanQ |-> Unset, QLimit |-> Unset, M3Limit |-> Unset, Chan2M3Start |-> Unset,
     Chan2QStart |-> Unset, Chan2M3Kin |-> Unset, Chan2QKin |-> Unset,
     PrevQMCTin |-> Unset, PrevQMCTout |-> Unset, PrevCm0 |-> Unset, PrevDm0 |-> Unset,
     prevDm0 |-> Unset, sumDisDay |-> ZeroMap,
     FlowVelocity |-> Unset, TravelDistance |-> Unset,
     AddedTRUN |-> Unset, StorageStepINIT |-> Unset, DischargeM3StructuresIni |-> Unset,
     MBErrorSplitRoutingM3 |-> Unset, OutletDischargeErrorSplitRouting |-> Unset]

\* round(a / b, 0): to the nearest whole number, a half to the even one
RoundHalfEven(a, b) ==
    LET q == a \div b
        r == a % b
    IN  IF 2 * r > b \/ (2 * r = b /\ q % 2 = 1) THEN q + 1 ELSE q

\* the number of sub-steps without the lower bound of 1
NoRoutStepsUnbounded(opt, DtSec, DtSecChannel) ==
    IF opt.InitLisflood THEN 1 ELSE RoundHalfEven(DtSec, DtSecChannel)

NoRoutSteps(opt, DtSec, DtSecChannel) ==
    IF opt.InitLisflood THEN 1 ELSE Max(1, RoundHalfEven(DtSec, DtSecChannel))

\* np.where(InitValue == -9999, default, InitValue)
OrDefaultOnly(InitValue, default) == default
OrDefault(InitValue, default) ==
    [p \in Pixels |-> IF InitValue[p] = NoValue THEN default[p] ELSE InitValue[p]]

\* the channel slope: not below ChanGradMin, and at most MCTGradMax at an MCT pixel
ChanGradWithoutMinimum(opt, mct) ==
    [p \in Pixels |->
        IF opt.MCTRouting /\ mct[p] /\ ChanGradMap[p] > MCTGradMax THEN MCTGradMax
        ELSE ChanGradMap[p]]
ChanGrad(opt, mct) ==
    [p \in Pixels |->
        LET g == Max(ChanGradMap[p], ChanGradMin[p])
        IN  IF opt.MCTRouting /\ mct[p] /\ g > MCTGradMax THEN MCTGradMax ELSE g]

ChanWettedPerimeterAlpha ==
    [p \in Pixels |->
        LET ChanWaterDepthAlpha == IF IsChannel[p] THEN Div(ChanDepthThreshold[p], 2) ELSE 0
        IN  ChanBottomWidth[p]
            + 2 * ISqrt(ChanWaterDepthAlpha ^ 2 + (ChanWaterDepthAlpha * ChanSdXdY[p]) ^ 2)]

\* (Manning / sqrt(slope)) ** Beta * perimeter ** (2/3 Beta)
ChannelAlphaOf(Man, grad) ==
    [p \in Pixels |-> Pow35(Man[p], ISqrt(grad[p])) * Pow25(ChanWettedPerimeterAlpha[p], 1)]

TotalCrossSectionAreaHalfBankFull ==
    [p \in Pixels |->
        LET ChanUpperWidth == ChanBottomWidth[p] + 2 * ChanSdXdY[p] * ChanDepthThreshold[p]
            TotalCrossSectionAreaBankFull ==
                Div(ChanDepthThreshold[p] * (ChanUpperWidth + ChanBottomWidth[p]) * AS, 2)
        IN  Div(TotalCrossSectionAreaBankFull, 2)]

initial(opt, bind, ldd, mctMap) ==
    LET steps == NoRoutSteps(opt, bind.DtSec, bind.DtSecChannel)
        IsChannelKinematic ==
            IF opt.MCTRouting THEN IsChannelKinematicOf(IsChannel, mctMap) ELSE IsChannel
        LddChan == lddmask(ldd, IsChannel)
        grad == ChanGrad(opt, mctMap)
        area == OrDefault(bind.TotalCrossSectionAreaInitValue, TotalCrossSectionAreaHalfBankFull)
        alpha == ChannelAlphaOf(ChanMan, grad)
        ChanM3 == [p \in Pixels |-> Div(area[p] * ChanLength[p], AS)]
        ChanQKin == [p \in Pixels |->
                        IF alpha[p] > 0 THEN PowInvBeta(Div(area[p], alpha[p] * AS)) ELSE 0]
    IN  [VarUnset EXCEPT
            !.DtSec = bind.DtSec,
            !.DtSecChannel = bind.DtSecChannel,
            !.NoRoutSteps = steps,
            !.DtRouting = Div(bind.DtSec, steps),
            !.IsChannelKinematic = IsChannelKinematic,
            !.IsChannelMCT = IF opt.MCTRouting THEN mctMap ELSE Unset,
            !.LddChan = LddChan,
            !.LddMCT = IF opt.MCTRouting THEN lddmask(ldd, mctMap) ELSE Unset,
            !.LddKinematic = IF opt.MCTRouting THEN lddmask(ldd, IsChannelKinematic)
                             ELSE LddChan,
            !.ChanGrad = grad,
            !.TotalCrossSectionArea = area,
            !.CrossSection2Area = IF opt.SplitRouting
                                  THEN OrDefault(bind.CrossSection2AreaInitValue, ZeroMap)
                                  ELSE Unset,
            !.Sideflow1Chan = IF opt.SplitRouting
                              THEN OrDefault(bind.PrevSideflowInitValue, ZeroMap)
                              ELSE Unset,
            !.ChannelAlpha = alpha,
            !.ChanM3 = ChanM3,
            !.ChanIniM3 = ChanM3,
            !.ChanM3Kin = ChanM3,
            !.ChanQKin = ChanQKin,
            !.ChanQ = OrDefault(bind.PrevDischarge, ChanQKin)]

\* a volume that is negative by less than the smallest unit is zero
SnapToZero(x) == IF x < 0 /\ x > -eps THEN 0 ELSE x

\* the second line of routing: its alpha, its limits and its initial state
initialSplit(opt, v) ==
    IF ~opt.SplitRouting THEN v
    ELSE
    LET ChanMan2 == [p \in Pixels |-> Div(ChanMan[p], CalChanMan[p]) * CalChanMan2[p]]
        alpha2 == ChannelAlphaOf(ChanMan2, v.ChanGrad)
        v2 == [v EXCEPT !.ChannelAlpha2 = alpha2]
        QLimit == [p \in Pixels |-> AvgDis[p] * QSplitMult[p]]
        Chan2M3Start == [p \in Pixels |-> KinVolume(ChanLength[p], alpha2[p], QLimit[p])]
        upQ == upstream(v.LddKinematic, QLimit)
        Chan2M3Kin == [p \in Pixels |->
                          Div(v.CrossSection2Area[p] * ChanLength[p], AS) + Chan2M3Start[p]]
        ChanM3Kin == [p \in Pixels |->
                         SnapToZero(v.ChanM3[p] - Chan2M3Kin[p] + Chan2M3Start[p])]
    IN  IF opt.InitLisflood THEN v2
        ELSE [v2 EXCEPT
                !.QLimit = QLimit,
                !.M3Limit = [p \in Pixels |->
                                KinVolume(ChanLength[p], v.ChannelAlpha[p], QLimit[p])],
                !.Chan2M3Start = Chan2M3Start,
                !.Chan2QStart = [p \in Pixels |-> QLimit[p] - upQ[p]],
                !.Chan2M3Kin = Chan2M3Kin,
                !.ChanM3Kin = ChanM3Kin,
                !.Chan2QKin = [p \in Pixels |->
                                  KinDischarge(ChanLength[p], alpha2[p], Chan2M3Kin[p])],
                !.ChanQKin = [p \in Pixels |->
                                 KinDischarge(ChanLength[p], v.ChannelAlpha[p], ChanM3Kin[p])]]

\* the storage held in reservoirs and lakes that the water balance counts
StructureStorageIni(opt) ==
    [p \in Pixels |->
        (IF opt.simulateReservoirs THEN ReservoirStorageIniM3[p] ELSE 0)
        + (IF opt.simulateLakes THEN LakeStorageIniM3[p] ELSE 0)]

\* StorageStepINIT = ChanM3Kin names the array of ChanM3Kin, and += adds to it
\* in place: the storage of the structures lands in ChanM3Kin as well
StorageStepINITAliased(opt, v) ==
    LET sum == [p \in Pixels |-> v.ChanM3Kin[p] + StructureStorageIni(opt)[p]]
    IN  [StorageStepINIT |-> sum, ChanM3Kin |-> sum]

\* the initial terms of the water balance (repMBTs)
initialWaterBalance(opt, v, ldd) ==
    IF ~opt.repMBTs THEN v
    ELSE IF opt.InitLisflood THEN
        LET a == StorageStepINITAliased(opt, v)
        IN  [v EXCEPT !.ChanM3Kin = a.ChanM3Kin,
                      !.DischargeM3StructuresIni = ZeroMap,
                      !.StorageStepINIT = CatchmentSum(ldd, a.StorageStepINIT)]
    ELSE IF ~opt.SplitRouting THEN
        LET a == StorageStepINITAliased(opt, v)
            DisStructure ==
                [p \in Pixels |->
                    (IF IsUpsOfStructureKinematicC[p] THEN v.ChanQ[p] * v.DtRouting ELSE 0)
                    + (IF opt.simulateLakes /\ IsUpsOfStructureLake[p]
                       THEN Div(v.ChanQ[p] * v.DtRouting, 2) ELSE 0)]
        IN  [v EXCEPT !.ChanM3Kin = a.ChanM3Kin,
                      !.StorageStepINIT = a.StorageStepINIT,
                      !.DischargeM3StructuresIni = CatchmentSum(ldd, DisStructure)]
    ELSE
        [v EXCEPT !.StorageStepINIT =
            CatchmentSum(ldd, [p \in Pixels |->
                v.ChanM3Kin[p] + v.Chan2M3Kin[p] - v.Chan2M3Start[p]
                + StructureStorageIni(opt)[p]])]

initialSecond(opt, v, ldd) == initialWaterBalance(opt, initialSplit(opt, v), ldd)

\* the kinematic wave router initialSecond builds
river_router_of(v) == kinematicWave(v.LddKinematic, v.ChannelAlpha, v.DtRouting, v.ChannelAlpha2)

\* the Courant number at time t0: the value of the state file, one without it
PrevCm0Cold(bind) == [p \in Pixels |-> SC]
PrevCm0Init(bind) == OrDefault(bind.PrevCmMCTInitValue, [p \in Pixels |-> SC])

initialMCT(opt, bind, v) ==
    LET v0 == [v EXCEPT !.ChannelAlpha2 = Unset]
        PrevQMCTout == OrDefault(bind.PrevQMCToutInitValue, ZeroMap)
    IN  IF ~opt.MCTRouting THEN v0
        ELSE [v0 EXCEPT
                !.PrevQMCTin = OrDefault(bind.PrevQMCTinInitValue, ZeroMap),
                !.PrevQMCTout = PrevQMCTout,
                !.PrevCm0 = PrevCm0Init(bind),
                !.PrevDm0 = OrDefault(bind.PrevDmMCTInitValue, ZeroMap),
                !.ChanQ = [p \in Pixels |->
                              IF v.IsChannelKinematic[p] THEN v.ChanQ[p] ELSE PrevQMCTout[p]]]

\* the MCT router initialMCT builds
mct_river_router_of(v) == mctWave(v.LddMCT, v.IsChannelKinematic)

\* ------------------------------------------------------------------------
\* routing.dynamic
\* ------------------------------------------------------------------------
AtLastPointC(ldd) == [p \in Pixels |-> ldd[p] = NoPix]

\* lateral inflow of the sub-step [volume]
SideflowChanM3(opt, inp) ==
    [p \in Pixels |->
        inp.ToChanM3RunoffDt[p]
        - (IF opt.openwaterevapo THEN inp.EvaAddM3Dt[p] ELSE 0)
        - (IF opt.wateruse THEN inp.WUseAddM3Dt[p] ELSE 0)
        + (IF opt.inflow THEN inp.QInDt[p] ELSE 0)
        - (IF opt.TransLoss THEN inp.TransLossM3Dt[p] ELSE 0)
        + (IF ~opt.InitLisflood /\ opt.simulateLakes THEN inp.QLakeOutM3Dt[p] ELSE 0)
        + (IF ~opt.InitLisflood /\ opt.simulateReservoirs THEN inp.QResOutM3Dt[p] ELSE 0)
        - (IF ~opt.InitLisflood /\ opt.simulatePolders THEN inp.ChannelToPolderM3Dt[p] ELSE 0)]

\* water added to every catchment in this sub-step alone
AddedTRUNOfSubStep(opt, v, ldd, inp, step) ==
    CatchmentSum(ldd, [p \in Pixels |->
        inp.ToChanM3RunoffDt[p]
        + (IF opt.inflow THEN inp.QInDt[p] ELSE 0)
        - (IF opt.openwaterevapo THEN inp.EvaAddM3Dt[p] ELSE 0)
        - (IF opt.wateruse THEN inp.WUseAddM3Dt[p] ELSE 0)])

\* water added to every catchment since the first sub-step of the time step
AddedTRUN(opt, v, ldd, inp, step) ==
    LET added == [p \in Pixels |->
                     inp.ToChanM3RunoffDt[p]
                     + (IF opt.inflow THEN inp.QInDt[p] ELSE 0)
                     - (IF opt.openwaterevapo THEN inp.EvaAddM3Dt[p] ELSE 0)
                     - (IF opt.wateruse THEN inp.WUseAddM3Dt[p] ELSE 0)]
        sum == CatchmentSum(ldd, added)
    IN  IF step < 1 THEN sum
        ELSE [p \in Pixels |-> v.AddedTRUN[p] + sum[p]]

SideflowChan(v, M3) ==
    [p \in Pixels |->
        IF v.IsChannelKinematic[p] THEN Div(M3[p] * SC, ChanLength[p] * v.DtRouting) ELSE 0]

SideflowChanMCT(opt, v, M3) ==
    IF opt.MCTRouting
    THEN [p \in Pixels |-> IF v.IsChannelMCT[p] THEN Div(M3[p], v.DtRouting) ELSE 0]
    ELSE ZeroMap

\* what a call of routing.dynamic did
NoTrace ==
    [kin |-> 0, split |-> FALSE, mct |-> FALSE, committed |-> FALSE, summed |-> 0,
     ChanQKinOutEnd |-> ZeroMap, ChanM3KinEnd |-> ZeroMap, q01In |-> ZeroMap,
     ChanQMCTOutEnd |-> ZeroMap, Cm0 |-> ZeroMap, Dm0 |-> ZeroMap,
     Cmend |-> ZeroMap, Dmend |-> ZeroMap, CmBefore |-> ZeroMap, DmBefore |-> ZeroMap,
     SideflowChanM3 |-> ZeroMap, SideflowChan |-> ZeroMap,
     SideflowMask |-> [p \in Pixels |-> FALSE],
     Sideflow2Chan |-> ZeroMap, before |-> <<>>,
     step |-> 0, addedSum |-> ZeroMap, dt |-> 0,
     StorageStepINITBefore |-> ZeroMap, MBErrorSplitRoutingM3Before |-> ZeroMap,
     failed |-> FALSE]

AddMap(a, b) == [p \in Pixels |-> a[p] + b[p]]

\* kinematic routing on all channel pixels (InitLisflood, or no split and no MCT)
KinematicStep(s, rr, sideflow) ==
    LET r == KINRouting(s.v, rr, s.v.ChanQKin, sideflow)
    IN  [s EXCEPT !.v = [@ EXCEPT !.ChanQKin = r.ChanQKin, !.ChanM3Kin = r.ChanM3Kin,
                                  !.ChanQ = r.ChanQKin, !.ChanM3 = r.ChanM3Kin,
                                  !.sumDisDay = AddMap(@, r.ChanQKin)],
                  !.tr = [@ EXCEPT !.kin = @ + 1, !.committed = TRUE, !.summed = @ + 1]]

\* the two lines of routing and their recombination
CombinedQWithoutLimit(ChanQKin, Chan2QKin, QLimit) == Max(ChanQKin + Chan2QKin, 0)
CombinedQ(ChanQKin, Chan2QKin, QLimit) == Max(ChanQKin + Chan2QKin - QLimit, 0)
CombinedM3(ChanM3Kin, Chan2M3Kin, Chan2M3Start) == ChanM3Kin + Chan2M3Kin - Chan2M3Start

SplitCommit(s, v1) ==
    LET ChanQ == [p \in Pixels |-> CombinedQ(v1.ChanQKin[p], v1.Chan2QKin[p], v1.QLimit[p])]
    IN  [s EXCEPT !.v = [v1 EXCEPT
                            !.ChanQ = ChanQ,
                            !.ChanM3 = [p \in Pixels |->
                                           CombinedM3(v1.ChanM3Kin[p], v1.Chan2M3Kin[p],
                                                      v1.Chan2M3Start[p])],
                            !.sumDisDay = AddMap(@, ChanQ)],
                  !.tr = [@ EXCEPT !.kin = @ + 2, !.split = TRUE, !.committed = TRUE,
                                   !.summed = @ + 1,
                                   !.Sideflow2Chan =
                                       Sideflow2Chan(s.v, s.SideflowChan, v1.Sideflow1Chan)]]

SplitStep(s, rr, sideflow) == SplitCommit(s, SplitRouting(s.v, rr, sideflow))

\* the branch of kinematic and MCT routing assigns neither self.var.ChanQKin
\* nor self.var.ChanM3Kin: they keep the values v has
MCTKinematicStored(v, k) == [ChanQKin |-> k.ChanQKin, ChanM3Kin |-> k.ChanM3Kin]
MCTKinematicKept(v, k) == [ChanQKin |-> v.ChanQKin, ChanM3Kin |-> v.ChanM3Kin]

\* the results of the kinematic routing k and of the MCT loop m are combined
\* and stored for the next sub-step
MCTCommit(s, k, m) ==
    LET v == s.v
        ChanQ == [p \in Pixels |->
                     IF v.IsChannelKinematic[p] THEN k.ChanQKin[p] ELSE m.ChanQMCTOut[p]]
    IN  [s EXCEPT !.v = [@ EXCEPT
                            !.ChanQKin = MCTKinematicKept(v, k).ChanQKin,
                            !.ChanM3Kin = MCTKinematicKept(v, k).ChanM3Kin,
                            !.PrevQMCTin = upstream(v.LddChan, v.ChanQ),
                            !.PrevCm0 = m.Cmout,
                            !.prevDm0 = m.Dmout,
                            !.ChanQ = ChanQ,
                            !.ChanM3 = [p \in Pixels |->
                                           IF v.IsChannelKinematic[p] THEN k.ChanM3Kin[p]
                                           ELSE m.ChanM3MCTOut[p]],
                            !.sumDisDay = AddMap(@, ChanQ)],
                  !.tr = [@ EXCEPT !.kin = @ + 1, !.mct = TRUE, !.committed = TRUE,
                                   !.summed = @ + 1,
                                   !.ChanQKinOutEnd = k.ChanQKin,
                                   !.ChanM3KinEnd = k.ChanM3Kin, !.q01In = m.q01In,
                                   !.ChanQMCTOutEnd = m.ChanQMCTOut,
                                   !.Cm0 = v.PrevCm0, !.Dm0 = v.PrevDm0,
                                   !.Cmend = m.Cmout, !.Dmend = m.Dmout,
                                   !.dt = m.dt]]

\* kinematic routing first, then MCT on the MCT pixels
MCTAfterKinematic(s, k, mr, sideflowMCT) ==
    MCTCommit(s, k, MCTRoutingLoop(s.v, mr, s.v.ChanQ, s.v.PrevQMCTin, k.ChanQKin,
                                   sideflowMCT))

MCTStep(s, rr, mr, sideflow, sideflowMCT) ==
    MCTAfterKinematic(s, KINRouting(s.v, rr, s.v.ChanQ, sideflow), mr, sideflowMCT)

\* the discharge volume at the structures of every catchment, less its initial
\* value; an attribute that was never set stops the call
DischargeM3StructuresR(opt, v, ldd) ==
    LET DisStructureR == [p \in Pixels |->
                             IF IsUpsOfStructureKinematicC[p] THEN v.ChanQ[p] * v.DtRouting
                             ELSE 0]
        atStructures == CatchmentSum(ldd, DisStructureR)
        DisLake == CatchmentSum(ldd, [p \in Pixels |-> Div(LakeInflowCC[p] * v.DtRouting, 2)])
        ini == v.DischargeM3StructuresIni
    IN  IF opt.simulateLakes
        THEN [p \in Pixels |-> atStructures[p] + DisLake[p] - ini[p]]
        ELSE IF opt.simulateReservoirs
        THEN [p \in Pixels |-> atStructures[p] - ini[p]]
        ELSE ZeroMap

StructureStorage(opt) ==
    [p \in Pixels |->
        (IF opt.simulateReservoirs THEN ReservoirStorageM3[p] ELSE 0)
        + (IF opt.simulateLakes THEN LakeStorageM3Balance[p] ELSE 0)]

\* the water balance of a run without split routing, at the last sub-step
WaterBalanceKinematic(opt, s, ldd) ==
    LET v == s.v
        withStructures == ~opt.InitLisflood /\ (opt.simulateReservoirs \/ opt.simulateLakes)
        StorageStep == IF withStructures THEN AddMap(v.ChanM3, StructureStorage(opt))
                       ELSE v.ChanM3
        R == IF withStructures THEN DischargeM3StructuresR(opt, v, ldd) ELSE ZeroMap
    IN  [s EXCEPT !.v.StorageStepINIT = TotalOf(StorageStep) + R[1]]

\* the water balance of a run with split routing, at the last sub-step
WaterBalanceSplit(opt, s, ldd) ==
    LET v == s.v
        withStructures == opt.simulateReservoirs \/ opt.simulateLakes
        OutStep == CatchmentSum(ldd, [p \in Pixels |->
                       IF AtLastPointC(ldd)[p]
                       THEN Div(v.sumDisDay[p], v.NoRoutSteps) * v.DtSec ELSE 0])
        StorageStep == [p \in Pixels |->
                           v.ChanM3Kin[p] + v.Chan2M3Kin[p] - v.Chan2M3Start[p]
                           + StructureStorage(opt)[p]]
        R == IF withStructures THEN DischargeM3StructuresR(opt, v, ldd) ELSE ZeroMap
        StorageStep1 == CatchmentSum(ldd, StorageStep)
        MBError == [p \in Pixels |->
                       v.StorageStepINIT[p] - StorageStep1[p] - OutStep[p] - R[p]
                       + v.AddedTRUN[p]]
        QoutCorrection == [p \in Pixels |->
                              IF AtLastPointC(ldd)[p] THEN Div(MBError[p], v.DtRouting) ELSE 0]
    IN  IF withStructures /\ v.DischargeM3StructuresIni = Unset
        THEN [s EXCEPT !.tr.failed = TRUE]
        ELSE [s EXCEPT !.v.MBErrorSplitRoutingM3 = MBError,
                       !.v.OutletDischargeErrorSplitRouting = CatchmentSum(ldd, QoutCorrection),
                       !.v.StorageStepINIT = AddMap(StorageStep1, R)]

WaterBalance(opt, s, ldd, step) ==
    IF ~opt.repMBTs \/ step # s.v.NoRoutSteps - 1 THEN s
    ELSE IF opt.InitLisflood \/ ~opt.SplitRouting THEN WaterBalanceKinematic(opt, s, ldd)
    ELSE WaterBalanceSplit(opt, s, ldd)

\* routing.dynamic(NoRoutingExecuted), dynamicWave off
Sideflows(opt, v, ldd, inp, step) ==
    LET M3 == SideflowChanM3(opt, inp)
        v1 == IF opt.repMBTs
              THEN [v EXCEPT !.AddedTRUN = AddedTRUN(opt, v, ldd, inp, step)]
              ELSE v
    IN  [v |-> IF opt.InitLisflood THEN [v1 EXCEPT !.IsChannelKinematic = IsChannel] ELSE v1,
         tr |-> [NoTrace EXCEPT !.SideflowChanM3 = M3,
                                !.SideflowChan = SideflowChan(v1, M3),
                                !.SideflowMask = v1.IsChannelKinematic],
         SideflowChan |-> SideflowChan(v1, M3),
         SideflowChanMCT |-> SideflowChanMCT(opt, v1, M3)]

\* the three routing branches of routing.dynamic, one after the other
KinematicBranch(opt, s, rr) ==
    IF opt.InitLisflood \/ (~opt.SplitRouting /\ ~opt.MCTRouting)
    THEN KinematicStep(s, rr, s.SideflowChan) ELSE s

SplitBranch(opt, s, rr) ==
    IF ~opt.InitLisflood /\ opt.SplitRouting /\ ~opt.MCTRouting
    THEN SplitStep(s, rr, s.SideflowChan) ELSE s

MCTBranch(opt, s, rr, mr) ==
    IF ~opt.InitLisflood /\ ~opt.SplitRouting /\ opt.MCTRouting
    THEN MCTStep(s, rr, mr, s.SideflowChan, s.SideflowChanMCT) ELSE s

VS == 100000

\* Q ** 0.24 as the sixth power of the fifth root, in tenths, of the fifth
\* root, in tenths, of Q
Pow024(Q) ==
    LET fifth == IRoot(Q * 1000, 5)
        twentyFifth == IRoot(fifth * 10000, 5)
    IN  Div(twentyFifth ^ 6, 10000)

\* the cross-section area of the flow velocity, not below 0.01
TotalCrossSectionArea(ChanM3Kin) ==
    [p \in Pixels |-> Max(Div(ChanM3Kin[p] * SC, ChanLength[p]), 1)]

\* channel velocity, limited by the equation of Wollheim and reduced for the
\* sinuosity of the channel; in units of 1 / VS
FlowVelocity(ChanQKin, ChanM3Kin) ==
    [p \in Pixels |->
        Div(Min(Div(ChanQKin[p] * VS, TotalCrossSectionArea(ChanM3Kin)[p]),
                Div(36 * Pow024(ChanQKin[p]) * VS, SC * SC))
              * Min(Div(ISqrt(PixelArea[p]) * SC, ChanLength[p]), SC),
            SC)]

\* the end of a call that was not stopped: velocity and travel distance
Velocity(s) ==
    IF s.tr.failed THEN s
    ELSE LET FV == FlowVelocity(s.v.ChanQKin, s.v.ChanM3Kin)
         IN  [s EXCEPT !.v.FlowVelocity = FV,
                       !.v.TravelDistance = [p \in Pixels |-> FV[p] * s.v.DtSec]]

dynamic(opt, v, rr, mr, ldd, inp, step) ==
    Velocity(
        WaterBalance(opt,
                     MCTBranch(opt,
                               SplitBranch(opt,
                                           KinematicBranch(opt,
                                                           Sideflows(opt, v, ldd, inp, step),
                                                           rr),
                                           rr),
                               rr, mr),
                     ldd, step))

\* ------------------------------------------------------------------------
\* The run: settings, initialisation, routing sub-steps, warm start
\* ------------------------------------------------------------------------
BaseOptions ==
    [InitLisflood |-> FALSE, SplitRouting |-> FALSE, MCTRouting |-> FALSE,
     repMBTs |-> FALSE, simulateReservoirs |-> FALSE, simulateLakes |-> FALSE,
     openwaterevapo |-> TRUE, wateruse |-> FALSE, inflow |-> FALSE, TransLoss |-> FALSE,
     simulatePolders |-> FALSE, dynamicWave |-> FALSE]

Options ==
    {[BaseOptions EXCEPT !.InitLisflood = i, !.SplitRouting = sp, !.MCTRouting = m,
                         !.repMBTs = mb, !.simulateReservoirs = r, !.simulateLakes = l] :
        i \in BOOLEAN, sp \in BOOLEAN, m \in BOOLEAN,
        mb \in BOOLEAN, r \in BOOLEAN, l \in BOOLEAN}

NoValueMap == [p \in Pixels |-> NoValue]

\* DtSec and DtSecChannel of the settings
Timings == {<<60, 30>>, <<30, 60>>}

ColdBinding(t) ==
    [DtSec |-> t[1], DtSecChannel |-> t[2],
     TotalCrossSectionAreaInitValue |-> NoValueMap,
     CrossSection2AreaInitValue |-> NoValueMap,
     PrevSideflowInitValue |-> NoValueMap,
     PrevDischarge |-> NoValueMap,
     PrevQMCTinInitValue |-> NoValueMap,
     PrevQMCToutInitValue |-> NoValueMap,
     PrevCmMCTInitValue |-> NoValueMap,
     PrevDmMCTInitValue |-> NoValueMap]

\* a start from the discharge of an earlier run only
DischargeBinding(t) ==
    [ColdBinding(t) EXCEPT !.PrevDischarge = [p \in Pixels |-> 9],
                           !.PrevQMCToutInitValue = [p \in Pixels |-> 9]]

Bindings == {ColdBinding(t) : t \in Timings} \cup {DischargeBinding(t) : t \in Timings}

\* the networks of the runs: a chain and a fan into the last pixel
ChainLdd == [p \in Pixels |-> IF p = NPix THEN NoPix ELSE p + 1]
FanLdd == [p \in Pixels |-> IF p = NPix THEN NoPix ELSE NPix]
Networks == {ChainLdd, FanLdd}

\* the MCT reaches of the runs: the pixels from some pixel on
NoMCT == [p \in Pixels |-> FALSE]
MCTReaches == {[p \in Pixels |-> p >= m] : m \in Pixels}

\* what the other modules hand to a routing sub-step
InputOf(runoff, evap, res) ==
    [ToChanM3RunoffDt |-> runoff, EvaAddM3Dt |-> evap, WUseAddM3Dt |-> ZeroMap,
     QInDt |-> ZeroMap, TransLossM3Dt |-> ZeroMap, QLakeOutM3Dt |-> ZeroMap,
     QResOutM3Dt |-> res, ChannelToPolderM3Dt |-> ZeroMap]

Inputs ==
    {InputOf(ZeroMap, ZeroMap, ZeroMap),
     InputOf([p \in Pixels |-> 300], ZeroMap, ZeroMap),
     InputOf(ZeroMap, [p \in Pixels |-> 300], ZeroMap),
     InputOf([p \in Pixels |-> IF p = 1 THEN 600 ELSE 0], ZeroMap,
             [p \in Pixels |-> IF p = NPix THEN 300 ELSE 0])}

\* the initialisation of the routing module by the model: initial, initialSecond
\* and, in a run with MCT routing, initialMCT
RoutingInit(opt, bind, ldd, mctMap) ==
    LET v1 == initialSecond(opt, initial(opt, bind, ldd, mctMap), ldd)
    IN  IF opt.MCTRouting THEN initialMCT(opt, bind, v1) ELSE v1

\* the state a run writes at its end, as the initial values of the next run
Persist(bind, v) ==
    [bind EXCEPT
        !.TotalCrossSectionAreaInitValue =
            [p \in Pixels |-> Div(v.ChanM3[p] * AS, ChanLength[p])],
        !.PrevDischarge = v.ChanQ,
        !.PrevQMCTinInitValue = v.PrevQMCTin,
        !.PrevQMCToutInitValue = v.ChanQ,
        !.PrevCmMCTInitValue = v.PrevCm0,
        !.PrevDmMCTInitValue = v.PrevDm0]

\* the time loop resets the sum of the sub-step discharges at the first sub-step
TimeStepStart(v, step) == IF step = 0 THEN [v EXCEPT !.sumDisDay = ZeroMap] ELSE v

WithoutMB(opt) == [opt EXCEPT !.repMBTs = FALSE]
MCTRun(opt) == ~opt.InitLisflood /\ ~opt.SplitRouting /\ opt.MCTRouting

Init ==
    /\ option \in Options
    /\ option.repMBTs \/ (~option.simulateReservoirs /\ ~option.simulateLakes)
    /\ binding \in Bindings
    /\ Ldd \in Networks
    /\ IsChannelMCT \in (IF option.MCTRouting THEN MCTReaches ELSE {NoMCT})
    /\ var = RoutingInit(option, binding, Ldd, IsChannelMCT)
    /\ river_router = river_router_of(var)
    /\ mct_river_router = IF option.MCTRouting THEN mct_river_router_of(var) ELSE Unset
    /\ pc = "run"
    /\ NoRoutingExecuted = 0
    /\ subSteps = 0
    /\ trace = NoTrace
    /\ noMB = RoutingInit(WithoutMB(option), binding, Ldd, IsChannelMCT)
    /\ warm = [v |-> var, restarts |-> 0]
    /\ loop = Unset
    /\ call = Unset

\* the same call of routing.dynamic in the run, in the run without the water
\* balance and in the warm-started run
Runs(inp) ==
    [r \in {<<option, var>>, <<WithoutMB(option), noMB>>, <<option, warm.v>>} |->
        dynamic(r[1], TimeStepStart(r[2], NoRoutingExecuted), river_router,
                mct_river_router, Ldd, inp, NoRoutingExecuted)]

\* the water the other modules add to the channels of every catchment in a
\* sub-step: runoff and inflow, less evaporation and water use
AddedWater(opt, ldd, inp) ==
    CatchmentSum(ldd, [p \in Pixels |->
        inp.ToChanM3RunoffDt[p]
        + (IF opt.inflow THEN inp.QInDt[p] ELSE 0)
        - (IF opt.openwaterevapo THEN inp.EvaAddM3Dt[p] ELSE 0)
        - (IF opt.wateruse THEN inp.WUseAddM3Dt[p] ELSE 0)])

\* the sub-step just made, the water added since the start of its time step
\* and the terms of the water balance before it
Advance(run, inp) ==
    /\ var' = run[<<option, var>>].v
    /\ trace' = [run[<<option, var>>].tr EXCEPT
                    !.CmBefore = IF subSteps = 0 THEN var.PrevCm0 ELSE trace.Cmend,
                    !.DmBefore = IF subSteps = 0 THEN var.PrevDm0 ELSE trace.Dmend,
                    !.step = NoRoutingExecuted,
                    !.addedSum = IF NoRoutingExecuted = 0
                                 THEN AddedWater(option, Ldd, inp)
                                 ELSE AddMap(trace.addedSum, AddedWater(option, Ldd, inp)),
                    !.before = var,
                    !.StorageStepINITBefore = var.StorageStepINIT,
                    !.MBErrorSplitRoutingM3Before = var.MBErrorSplitRoutingM3]
    /\ noMB' = run[<<WithoutMB(option), noMB>>].v
    /\ warm' = [warm EXCEPT !.v = run[<<option, warm.v>>].v]

\* one routing sub-step of the run, of the run without the water balance and
\* of the warm-started run
Step ==
    /\ pc = "run"
    /\ subSteps < MaxSubSteps
    /\ ~trace.failed
    /\ \E inp \in Inputs : Advance(Runs(inp), inp)
    /\ NoRoutingExecuted' = (NoRoutingExecuted + 1) % var.NoRoutSteps
    /\ subSteps' = subSteps + 1
    /\ UNCHANGED <<call, option, binding, Ldd, IsChannelMCT, river_router, mct_river_router, pc, loop>>

\* the run is stopped at the end of a time step and started again from the
\* state it wrote
Restart ==
    /\ pc = "run"
    /\ MCTRun(option)
    /\ subSteps > 0
    /\ NoRoutingExecuted = 0
    /\ warm.restarts < subSteps
    /\ warm' = [v |-> RoutingInit(option, Persist(binding, warm.v), Ldd, IsChannelMCT),
                restarts |-> subSteps]
    /\ UNCHANGED <<call, option, binding, Ldd, IsChannelMCT, var, river_router, mct_river_router,
                   pc, NoRoutingExecuted, subSteps, trace, noMB, loop>>

Next == Step \/ Restart

Spec == Init /\ [][Next]_vars

\* ------------------------------------------------------------------------
\* The routing order alone: every network and every set of MCT pixels
\* ------------------------------------------------------------------------
MCTOptions == [BaseOptions EXCEPT !.MCTRouting = TRUE]
MCTMasks == [Pixels -> BOOLEAN] \ {NoMCT}

InitOrder ==
    /\ option = MCTOptions
    /\ binding = ColdBinding(<<60, 30>>)
    /\ Ldd \in Forests
    /\ IsChannelMCT \in MCTMasks
    /\ var = initialSecond(option, initial(option, binding, Ldd, IsChannelMCT), Ldd)
    /\ river_router = river_router_of(var)
    /\ mct_river_router = Unset
    /\ pc = "initialMCT"
    /\ NoRoutingExecuted = 0
    /\ subSteps = 0
    /\ trace = NoTrace
    /\ noMB = Unset
    /\ warm = Unset
    /\ loop = Unset
    /\ call = Unset

InitialMCT ==
    /\ pc = "initialMCT"
    /\ var' = initialMCT(option, binding, var)
    /\ mct_river_router' = mct_river_router_of(var')
    /\ pc' = "run"
    /\ UNCHANGED <<call, option, binding, Ldd, IsChannelMCT, river_router, NoRoutingExecuted,
                   subSteps, trace, noMB, warm, loop>>

NextOrder == InitialMCT

SpecOrder == InitOrder /\ [][NextOrder]_vars

\* ------------------------------------------------------------------------
\* MCT runs with the pixels of an order routed one at a time, in any order
\* ------------------------------------------------------------------------
\* the pixels of an order
OrderPixels(mr, order) ==
    IF order > Len(mr.order_start_stop) THEN {}
    ELSE {mr.pixels_ordered[i] :
            i \in (mr.order_start_stop[order][1] + 1)..mr.order_start_stop[order][2]}

InitBatch ==
    /\ option = MCTOptions
    /\ binding \in {ColdBinding(<<60, 30>>), DischargeBinding(<<60, 30>>)}
    /\ Ldd \in Networks
    /\ IsChannelMCT \in MCTMasks
    /\ var = RoutingInit(option, binding, Ldd, IsChannelMCT)
    /\ river_router = river_router_of(var)
    /\ mct_river_router = mct_river_router_of(var)
    /\ pc = "run"
    /\ NoRoutingExecuted = 0
    /\ subSteps = 0
    /\ trace = NoTrace
    /\ noMB = Unset
    /\ warm = Unset
    /\ loop = Unset
    /\ call = Unset

\* routing.dynamic up to the start of the pixel loop
BeginLoop ==
    /\ pc = "run"
    /\ subSteps < MaxSubSteps
    /\ \E inp \in Inputs :
        LET s == Sideflows(option, TimeStepStart(var, NoRoutingExecuted), Ldd, inp,
                           NoRoutingExecuted)
            k == KINRouting(s.v, river_router, s.v.ChanQ, s.SideflowChan)
            L == MCTLoopStart(s.v, s.v.ChanQ, s.v.PrevQMCTin, k.ChanQKin, s.SideflowChanMCT)
        IN  loop' = [s |-> s, k |-> k, start |-> L, L |-> L, order |-> 1,
                     todo |-> OrderPixels(mct_river_router, 1)]
    /\ pc' = "batch"
    /\ UNCHANGED <<call, option, binding, Ldd, IsChannelMCT, var, river_router, mct_river_router,
                   NoRoutingExecuted, subSteps, trace, noMB, warm>>

\* one pixel of the current order
RoutePixel ==
    /\ pc = "batch"
    /\ \E idpix \in loop.todo :
        loop' = [loop EXCEPT !.L = MCTPixel(loop.L, idpix), !.todo = @ \ {idpix}]
    /\ UNCHANGED <<call, option, binding, Ldd, IsChannelMCT, var, river_router, mct_river_router,
                   pc, NoRoutingExecuted, subSteps, trace, noMB, warm>>

\* all pixels of the order are routed: the next order starts
EndOrder ==
    /\ pc = "batch"
    /\ loop.todo = {}
    /\ loop.order <= Len(mct_river_router.order_start_stop)
    /\ loop' = [loop EXCEPT !.L = MCTOrderEnd(loop.s.v, loop.L),
                            !.order = @ + 1,
                            !.todo = OrderPixels(mct_river_router, loop.order + 1)]
    /\ UNCHANGED <<call, option, binding, Ldd, IsChannelMCT, var, river_router, mct_river_router,
                   pc, NoRoutingExecuted, subSteps, trace, noMB, warm>>

\* the loop is over: the rest of routing.dynamic
EndLoop ==
    /\ pc = "batch"
    /\ loop.order > Len(mct_river_router.order_start_stop)
    /\ LET d == WaterBalance(option,
                             MCTCommit(loop.s, loop.k, MCTLoopResult(loop.s.v, loop.L)),
                             Ldd, NoRoutingExecuted)
       IN  /\ var' = d.v
           /\ trace' = d.tr
    /\ pc' = "run"
    /\ loop' = Unset
    /\ NoRoutingExecuted' = (NoRoutingExecuted + 1) % var.NoRoutSteps
    /\ subSteps' = subSteps + 1
    /\ UNCHANGED <<call, option, binding, Ldd, IsChannelMCT, river_router, mct_river_router,
                   noMB, warm>>

NextBatch == BeginLoop \/ RoutePixel \/ EndOrder \/ EndLoop

SpecBatch == InitBatch /\ [][NextBatch]_vars

\* ------------------------------------------------------------------------
\* The initialisation alone, function by function, from cold, supplied and
\* mixed initial-value maps
\* ------------------------------------------------------------------------
\* every initial-value map supplied by an earlier run
SuppliedBinding(t) ==
    [ColdBinding(t) EXCEPT
        !.TotalCrossSectionAreaInitValue = [p \in Pixels |-> 60 + p],
        !.CrossSection2AreaInitValue = [p \in Pixels |-> 20 + p],
        !.PrevSideflowInitValue = [p \in Pixels |-> 5],
        !.PrevDischarge = [p \in Pixels |-> 9],
        !.PrevQMCTinInitValue = [p \in Pixels |-> 7],
        !.PrevQMCToutInitValue = [p \in Pixels |-> 6],
        !.PrevCmMCTInitValue = [p \in Pixels |-> 150],
        !.PrevDmMCTInitValue = [p \in Pixels |-> 30]]

\* maps that hold -9999 at some pixels and a value at the others
MixedBinding(t, cold) ==
    [k \in DOMAIN ColdBinding(t) |->
        IF k \in {"DtSec", "DtSecChannel"} THEN ColdBinding(t)[k]
        ELSE [p \in Pixels |-> IF p \in cold THEN NoValue ELSE SuppliedBinding(t)[k][p]]]

InitBindings ==
    {ColdBinding(<<60, 30>>), SuppliedBinding(<<60, 30>>)}
        \cup {MixedBinding(<<60, 30>>, {p}) : p \in Pixels}

InitInit ==
    /\ option \in {[BaseOptions EXCEPT !.InitLisflood = i, !.SplitRouting = sp,
                                       !.MCTRouting = m] :
                      i \in BOOLEAN, sp \in BOOLEAN, m \in BOOLEAN}
    /\ binding \in InitBindings
    /\ Ldd \in Networks
    /\ IsChannelMCT \in (IF option.MCTRouting THEN MCTReaches ELSE {NoMCT})
    /\ var = VarUnset
    /\ river_router = Unset
    /\ mct_river_router = Unset
    /\ pc = "initial"
    /\ NoRoutingExecuted = 0
    /\ subSteps = 0
    /\ trace = NoTrace
    /\ noMB = Unset
    /\ warm = Unset
    /\ loop = Unset
    /\ call = Unset

Initial ==
    /\ pc = "initial"
    /\ var' = initial(option, binding, Ldd, IsChannelMCT)
    /\ pc' = "initialSecond"
    /\ UNCHANGED <<call, option, binding, Ldd, IsChannelMCT, river_router, mct_river_router,
                   NoRoutingExecuted, subSteps, trace, noMB, warm, loop>>

InitialSecond ==
    /\ pc = "initialSecond"
    /\ var' = initialSecond(option, var, Ldd)
    /\ river_router' = river_router_of(var')
    /\ pc' = IF option.MCTRouting THEN "initialMCT" ELSE "run"
    /\ UNCHANGED <<call, option, binding, Ldd, IsChannelMCT, mct_river_router,
                   NoRoutingExecuted, subSteps, trace, noMB, warm, loop>>

NextInit == Initial \/ InitialSecond \/ InitialMCT

SpecInit == InitInit /\ [][NextInit]_vars

\* ------------------------------------------------------------------------
\* The initialisation for every pair of DtSec and DtSecChannel
\* ------------------------------------------------------------------------
MaxDtSec == 12
MaxDtSecChannel == 8

InitTimeSteps ==
    /\ option \in {[BaseOptions EXCEPT !.InitLisflood = i, !.MCTRouting = m] :
                      i \in BOOLEAN, m \in BOOLEAN}
    /\ binding \in {ColdBinding(<<d, c>>) : d \in 1..MaxDtSec, c \in 1..MaxDtSecChannel}
    /\ Ldd = ChainLdd
    /\ IsChannelMCT = IF option.MCTRouting THEN [p \in Pixels |-> p = NPix] ELSE NoMCT
    /\ var = VarUnset
    /\ river_router = Unset
    /\ mct_river_router = Unset
    /\ pc = "initial"
    /\ NoRoutingExecuted = 0
    /\ subSteps = 0
    /\ trace = NoTrace
    /\ noMB = Unset
    /\ warm = Unset
    /\ loop = Unset
    /\ call = Unset

SpecTimeSteps == InitTimeSteps /\ [][NextInit]_vars

\* ------------------------------------------------------------------------
\* snow.initial, snow.dynamic at one pixel
\* Depths of water are in tenths of a millimetre, temperatures in whole
\* degrees, coefficients and sines in hundredths, DtDay in quarters of a day.
\* ------------------------------------------------------------------------
MaxSnowSteps == 2
Zones == 1..3

\* the days of the year of the calls, and the sines of the two seasonal cycles
\* on them: sin(radians((CalendarDay - 81) * SnowDayDegrees)) and
\* sin(radians((CalendarDay - 165) * IceDayDegrees))
CalendarDays == {20, 200, 300}
snowmelt_coeff(CalendarDay) ==
    CASE CalendarDay = 20 -> -87 [] CalendarDay = 200 -> 89 [] OTHER -> -59
ice_melt_coeff(CalendarDay) ==
    CASE CalendarDay = 20 -> 96 [] CalendarDay = 200 -> 93 [] OTHER -> -100

SeasSnowMeltCoef(c, CalendarDay) ==
    Div(c.SnowSeason * (IF c.hemisphere_N THEN snowmelt_coeff(CalendarDay)
                        ELSE -snowmelt_coeff(CalendarDay)), SC)
        + c.SnowMeltCoef

\* the coefficient of the summer ice melt of the hemisphere of the pixel
SummerSeason(c, CalendarDay) ==
    LET is_summer_icemelt_N == CalendarDay > 165 /\ CalendarDay < 257
        is_summer_icemelt_S == CalendarDay > 347 \/ CalendarDay < 74
    IN  IF c.hemisphere_N
        THEN (IF is_summer_icemelt_N THEN ice_melt_coeff(CalendarDay) ELSE 0)
        ELSE (IF is_summer_icemelt_S THEN ice_melt_coeff(CalendarDay) ELSE 0)

\* temperature at the centre of zone i
TavgS(c, Tavg, i) == Tavg + c.DeltaTSnow * (i - 2)

\* precipitation is rain in a zone that is not below TempSnow
IsRainAbove(TavgSi, TempSnow) == TavgSi > TempSnow
IsRain(TavgSi, TempSnow) == TavgSi >= TempSnow

SnowS(c, Tavg, Precipitation, i) ==
    IF TavgS(c, Tavg, i) < c.TempSnow THEN Div(c.SnowFactor * Precipitation, SC) ELSE 0

RainS(c, Tavg, Precipitation, i) ==
    IF IsRain(TavgS(c, Tavg, i), c.TempSnow) THEN Precipitation ELSE 0

\* snow melt and ice melt a zone would give, before they are held to its cover
MeltDemand(c, Tavg, Precipitation, CalendarDay, i) ==
    LET SnowMeltS == Div((TavgS(c, Tavg, i) - c.TempMelt) * SeasSnowMeltCoef(c, CalendarDay)
                             * (1000 + RainS(c, Tavg, Precipitation, i)) * 10 * c.DtDay,
                         SC * 1000 * 4)
        T == IF i < 3 THEN Tavg ELSE TavgS(c, Tavg, i)
        IceMeltS == Div(T * 7 * 10 * c.DtDay * SummerSeason(c, CalendarDay), SC * 4)
    IN  SnowMeltS + IceMeltS

\* np.maximum(np.minimum(melt, SnowCoverS[i]), 0)
SnowMeltUnheld(melt, cover) == melt
SnowMeltHeld(melt, cover) == Max(Min(melt, cover), 0)

\* the loop over the three zones and the pixel averages
snow_dynamic(c, Tavg, Precipitation, CalendarDay) ==
    LET snow == [i \in Zones |-> SnowS(c, Tavg, Precipitation, i)]
        rain == [i \in Zones |-> RainS(c, Tavg, Precipitation, i)]
        demand == [i \in Zones |-> MeltDemand(c, Tavg, Precipitation, CalendarDay, i)]
        melt == [i \in Zones |-> SnowMeltHeld(demand[i], c.SnowCoverS[i])]
        cover == [i \in Zones |-> c.SnowCoverS[i] + snow[i] - melt[i]]
        Snow == Div(snow[1] + snow[2] + snow[3], 3)
        Rain == Div(rain[1] + rain[2] + rain[3], 3)
    IN  [c EXCEPT !.SnowCoverS = cover,
                  !.Snow = Snow,
                  !.Rain = Rain,
                  !.SnowMelt = Div(melt[1] + melt[2] + melt[3], 3),
                  !.SnowCover = Div(cover[1] + cover[2] + cover[3], 3),
                  !.TotalPrecipitation = @ + Snow + Rain,
                  !.Tavg = Tavg, !.Precipitation = Precipitation,
                  !.CalendarDay = CalendarDay,
                  !.zone = [SnowS |-> snow, RainS |-> rain, demand |-> demand,
                            SnowMeltS |-> melt, before |-> c.SnowCoverS],
                  !.TotalPrecipitationBefore = c.TotalPrecipitation]

\* the snow module of a pixel before snow.initial: its maps and settings
SnowPixels ==
    {[op |-> "snow", DeltaTSnow |-> d, TempSnow |-> 1, TempMelt |-> 0,
      SnowFactor |-> f, SnowMeltCoef |-> m, SnowSeason |-> 50, hemisphere_N |-> n,
      DtDay |-> 4, SnowCoverInitValue |-> ini,
      SnowCoverS |-> <<0, 0, 0>>, SnowCoverInit |-> 0, SnowCover |-> 0,
      Snow |-> 0, Rain |-> 0, SnowMelt |-> 0, TotalPrecipitation |-> 0,
      Tavg |-> 0, Precipitation |-> 0, CalendarDay |-> 0,
      zone |-> [SnowS |-> <<0, 0, 0>>, RainS |-> <<0, 0, 0>>, demand |-> <<0, 0, 0>>,
                SnowMeltS |-> <<0, 0, 0>>, before |-> <<0, 0, 0>>],
      TotalPrecipitationBefore |-> 0] :
        d \in {0, 3}, f \in {100, 150}, m \in {400, 20}, n \in BOOLEAN,
        ini \in {<<0, 0, 0>>, <<0, 50, 300>>}}

InitSnow ==
    /\ call \in SnowPixels
    /\ option = BaseOptions
    /\ binding = ColdBinding(<<60, 30>>)
    /\ Ldd = ChainLdd
    /\ IsChannelMCT = NoMCT
    /\ var = VarUnset
    /\ river_router = Unset
    /\ mct_river_router = Unset
    /\ pc = "snow.initial"
    /\ NoRoutingExecuted = 0
    /\ subSteps = 0
    /\ trace = NoTrace
    /\ noMB = Unset
    /\ warm = Unset
    /\ loop = Unset

SnowInitial ==
    /\ pc = "snow.initial"
    /\ call' = [call EXCEPT
                   !.SnowCoverS = call.SnowCoverInitValue,
                   !.SnowCoverInit = Div(call.SnowCoverInitValue[1] + call.SnowCoverInitValue[2]
                                             + call.SnowCoverInitValue[3], 3),
                   !.SnowCover = 0]
    /\ pc' = "snow.dynamic"
    /\ UNCHANGED <<option, binding, Ldd, IsChannelMCT, var, river_router, mct_river_router,
                   NoRoutingExecuted, subSteps, trace, noMB, warm, loop>>

\* a call of snow.dynamic, with the weather of its time step
SnowDynamic ==
    /\ pc = "snow.dynamic"
    /\ subSteps < MaxSnowSteps
    /\ \E Tavg \in {-5, 1, 10}, Precipitation \in {0, 100}, CalendarDay \in CalendarDays :
           call' = snow_dynamic(call, Tavg, Precipitation, CalendarDay)
    /\ subSteps' = subSteps + 1
    /\ UNCHANGED <<option, binding, Ldd, IsChannelMCT, var, river_router, mct_river_router,
                   pc, NoRoutingExecuted, trace, noMB, warm, loop>>

NextSnow == SnowInitial \/ SnowDynamic

SpecSnow == InitSnow /\ [][NextSnow]_vars

\* ------------------------------------------------------------------------
\* Calls of single functions of the module, each on arguments of its own
\* ------------------------------------------------------------------------
SplitOption == [BaseOptions EXCEPT !.SplitRouting = TRUE]

\* the state of a split run, with the storages of the two lines set to m1 and
\* m2, the bankfull-start volume to start and the discharges to match
SplitState(m1, m2, start) ==
    LET v == RoutingInit(SplitOption, ColdBinding(<<60, 30>>), ChainLdd, NoMCT)
    IN  [v EXCEPT
            !.ChanM3Kin = [p \in Pixels |-> m1],
            !.Chan2M3Kin = [p \in Pixels |-> m2],
            !.Chan2M3Start = [p \in Pixels |-> start],
            !.Chan2QStart = [p \in Pixels |-> IF start = 0 THEN 0 ELSE v.Chan2QStart[p]],
            !.ChanQKin = [p \in Pixels |-> KinDischarge(ChanLength[p], v.ChannelAlpha[p], m1)],
            !.Chan2QKin = [p \in Pixels |-> KinDischarge(ChanLength[p], v.ChannelAlpha2[p], m2)]]

SplitCalls ==
    {[op |-> "SplitRouting", done |-> FALSE, v |-> SplitState(m[1], m[2], m[3]),
      SideflowChan |-> S, SideflowRatio |-> ZeroMap, Sideflow2Chan |-> ZeroMap,
      out |-> SplitState(m[1], m[2], m[3])] :
        m \in ({0, 100, 200} \X {180, 300} \X {180}) \cup ({0, 200} \X {0, 100} \X {0}),
        S \in {[p \in Pixels |-> x] : x \in {0, 1, -1, 50, -50}}
                \cup {[p \in Pixels |-> IF p = 1 THEN x ELSE IF p = 2 THEN 50 ELSE -x] :
                         x \in {1, -1}}}

\* MCTRouting_single on small, zero and falling discharges and on a sideflow
\* that takes more than the reach holds
MCTCalls ==
    {[op |-> "MCTRouting_single", done |-> FALSE, stage |-> "guess",
      a |-> [q10 |-> q[1], q01 |-> q[2], q00 |-> q[3], ql |-> ql, Cm0 |-> SC, Dm0 |-> 0,
             dt |-> 30, xpix |-> ChanLength[p], s0 |-> MCTGradMax,
             Balv |-> ChanBottomWidth[p], ANalv |-> ChanSdXdY[p], Nalv |-> ChanMan[p]],
      i |-> 0, q11 |-> 0, qmx0 |-> 0, qmx1 |-> 0, qm1 |-> 0,
      sum |-> 0, n |-> [Dm1 |-> 0, Cm1 |-> 0],
      out |-> [q11 |-> 0, V11 |-> 0, Cm1 |-> 0, Dm1 |-> 0]] :
        q \in {0, 2, 6} \X {0, 2, 6} \X {0, 2, 6}, ql \in {-50, 0, 4}, p \in {1, 2}}

\* hoq on rectangular, trapezoidal and triangular sections, and on a narrow
\* rectangular section on which the corrections do not die out
HoqArguments ==
    {[q |-> q, s0 |-> s0, Balv |-> g[1], ANalv |-> g[2], Nalv |-> 8] :
        q \in 1..QTabMax, s0 \in {1, 4}, g \in {<<10, 0>>, <<10, 1>>, <<0, 1>>}}
    \cup {[q |-> 48, s0 |-> 4, Balv |-> 2, ANalv |-> 0, Nalv |-> 8]}

HoqCalls ==
    {[op |-> "hoq", done |-> FALSE, stage |-> "guess", a |-> a,
      y |-> 0, tries |-> 0, iterations |-> 0, dy |-> 0, broke |-> FALSE,
      out |-> 0] : a \in HoqArguments}

\* the first approximation and the correction of hoq over these calls, computed once
hoqFirstGuessTable ==
    [a \in HoqArguments |-> hoqFirstGuess(a.q, a.s0, a.Balv, a.ANalv, a.Nalv)]
hoqCorrectionTable ==
    [a \in HoqArguments, y \in 0..YTabMax |->
        hoqCorrection(qoh(y, a.s0, a.Balv, a.ANalv, a.Nalv), a.q)]
hoqCorrectionAt(a, y) ==
    IF y \in 0..YTabMax THEN hoqCorrectionTable[a, y]
    ELSE hoqCorrection(qoh(y, a.s0, a.Balv, a.ANalv, a.Nalv), a.q)

\* get_mct_pix and put_mct_pix in catchments of channel and other pixels, with
\* MCT routing on some of the channel pixels; mctmask is the map ChannelsMCT
MctPixCalls ==
    {[op |-> "mct_pix", done |-> FALSE, stage |-> "get",
      IsChannel |-> cm[1], mctmask |-> cm[2],
      IsChannelKinematic |-> IsChannelKinematicOf(cm[1], cm[2]),
      var |-> [p \in Pixels |-> 10 + p], y |-> <<>>, exploded |-> <<>>, back |-> <<>>] :
        cm \in {x \in [Pixels -> BOOLEAN] \X [Pixels -> BOOLEAN] :
                   /\ \E p \in Pixels : x[2][p]
                   /\ \A p \in Pixels : x[2][p] => x[1][p]}}

Calls == SplitCalls \cup MCTCalls \cup HoqCalls \cup MctPixCalls

InitCalls ==
    /\ call \in Calls
    /\ option = SplitOption
    /\ binding = ColdBinding(<<60, 30>>)
    /\ Ldd = ChainLdd
    /\ IsChannelMCT = NoMCT
    /\ var = VarUnset
    /\ river_router = Unset
    /\ mct_river_router = Unset
    /\ pc = "call"
    /\ NoRoutingExecuted = 0
    /\ subSteps = 0
    /\ trace = NoTrace
    /\ noMB = Unset
    /\ warm = Unset
    /\ loop = Unset

\* SplitRouting on the state v and the sideflow of the call; out is self.var,
\* SideflowRatio and Sideflow2Chan are locals of the function
CallSplitRouting ==
    /\ pc = "call" /\ call.op = "SplitRouting" /\ ~call.done
    /\ LET out == SplitRouting(call.v, river_router_of(call.v), call.SideflowChan)
       IN  call' = [call EXCEPT !.done = TRUE, !.out = out,
                                !.SideflowRatio = SideflowRatio(call.v),
                                !.Sideflow2Chan =
                                    Sideflow2Chan(call.v, call.SideflowChan, out.Sideflow1Chan)]
    /\ UNCHANGED <<option, binding, Ldd, IsChannelMCT, var, river_router, mct_river_router,
                   pc, NoRoutingExecuted, subSteps, trace, noMB, warm, loop>>

\* MCTRouting_single up to its loop: the first guess of the outflow
CallMCTFirstGuess ==
    /\ pc = "call" /\ call.op = "MCTRouting_single" /\ call.stage = "guess"
    /\ call' = [call EXCEPT !.stage = "pass",
                            !.q11 = MCTFirstGuess(call.a.q10, call.a.q01, call.a.q00)]
    /\ UNCHANGED <<option, binding, Ldd, IsChannelMCT, var, river_router, mct_river_router,
                   pc, NoRoutingExecuted, subSteps, trace, noMB, warm, loop>>

\* one pass of its loop; qmx0, qmx1 and qm1 are the discharges hoq is called
\* with, sum is the outflow before it is tested for its sign
CallMCTPass ==
    /\ pc = "call" /\ call.op = "MCTRouting_single" /\ call.stage = "pass" /\ call.i < 2
    /\ LET a == call.a
           n == MCTPassNumbers(call.q11, a.q10, a.q01, a.q00, a.dt, a.xpix,
                               a.s0, a.Balv, a.ANalv, a.Nalv)
       IN  call' = [call EXCEPT
                       !.i = call.i + 1,
                       !.qmx0 = RefDischarge(a.q00, a.q01),
                       !.qmx1 = RefDischarge(a.q10, call.q11),
                       !.qm1 = RefDischarge(a.q01, call.q11),
                       !.n = n,
                       !.sum = MCTOutflowSum(n, a.q10, a.q01, a.q00, a.ql, a.Cm0, a.Dm0),
                       !.q11 = MCTOutflow(n, a.q10, a.q01, a.q00, a.ql, a.Cm0, a.Dm0).q11]
    /\ UNCHANGED <<option, binding, Ldd, IsChannelMCT, var, river_router, mct_river_router,
                   pc, NoRoutingExecuted, subSteps, trace, noMB, warm, loop>>

\* after the loop: the storage, and the return
CallMCTReturn ==
    /\ pc = "call" /\ call.op = "MCTRouting_single" /\ call.stage = "pass" /\ call.i = 2
    /\ call' = [call EXCEPT
                   !.stage = "return", !.done = TRUE,
                   !.out = MCTStorage([q11 |-> call.q11, Cm1 |-> call.n.Cm1,
                                       Dm1 |-> call.n.Dm1], call.a.q01, call.a.dt)]
    /\ UNCHANGED <<option, binding, Ldd, IsChannelMCT, var, river_router, mct_river_router,
                   pc, NoRoutingExecuted, subSteps, trace, noMB, warm, loop>>

\* hoq up to its loop: the first approximation of the depth
CallHoqFirstGuess ==
    /\ pc = "call" /\ call.op = "hoq" /\ call.stage = "guess"
    /\ call' = [call EXCEPT !.stage = "loop", !.tries = 1,
                            !.y = hoqFirstGuessTable[call.a]]
    /\ UNCHANGED <<option, binding, Ldd, IsChannelMCT, var, river_router, mct_river_router,
                   pc, NoRoutingExecuted, subSteps, trace, noMB, warm, loop>>

\* one iteration of "for tries in range(1, max_tries)"
CallHoqIteration ==
    /\ pc = "call" /\ call.op = "hoq" /\ call.stage = "loop"
    /\ ~call.broke /\ call.tries < max_tries
    /\ LET dy == hoqCorrectionAt(call.a, call.y)
       IN  call' = [call EXCEPT !.y = call.y - dy, !.dy = dy,
                                !.iterations = call.iterations + 1,
                                !.broke = hoqConverged(dy),
                                !.tries = IF hoqConverged(dy) THEN call.tries
                                          ELSE call.tries + 1]
    /\ UNCHANGED <<option, binding, Ldd, IsChannelMCT, var, river_router, mct_river_router,
                   pc, NoRoutingExecuted, subSteps, trace, noMB, warm, loop>>

\* after the loop: return y
CallHoqReturn ==
    /\ pc = "call" /\ call.op = "hoq" /\ call.stage = "loop"
    /\ call.broke \/ call.tries >= max_tries
    /\ call' = [call EXCEPT !.stage = "return", !.done = TRUE, !.out = call.y]
    /\ UNCHANGED <<option, binding, Ldd, IsChannelMCT, var, river_router, mct_river_router,
                   pc, NoRoutingExecuted, subSteps, trace, noMB, warm, loop>>

\* y = get_mct_pix(var), and get_mct_pix of the array put_mct_pix returned
CallGetMctPix ==
    /\ pc = "call" /\ call.op = "mct_pix" /\ call.stage \in {"get", "back"}
    /\ call' = IF call.stage = "get"
               THEN [call EXCEPT !.stage = "put",
                                 !.y = get_mct_pix(call.IsChannelKinematic, call.var)]
               ELSE [call EXCEPT !.stage = "return", !.done = TRUE,
                                 !.back = get_mct_pix(call.IsChannelKinematic, call.exploded)]
    /\ UNCHANGED <<option, binding, Ldd, IsChannelMCT, var, river_router, mct_river_router,
                   pc, NoRoutingExecuted, subSteps, trace, noMB, warm, loop>>

\* put_mct_pix(y)
CallPutMctPix ==
    /\ pc = "call" /\ call.op = "mct_pix" /\ call.stage = "put"
    /\ call' = [call EXCEPT !.stage = "back",
                            !.exploded = put_mct_pix(call.IsChannelKinematic, call.y)]
    /\ UNCHANGED <<option, binding, Ldd, IsChannelMCT, var, river_router, mct_river_router,
                   pc, NoRoutingExecuted, subSteps, trace, noMB, warm, loop>>

NextCalls ==
    \/ CallGetMctPix \/ CallPutMctPix
    \/ CallSplitRouting
    \/ CallMCTFirstGuess \/ CallMCTPass \/ CallMCTReturn
    \/ CallHoqFirstGuess \/ CallHoqIteration \/ CallHoqReturn

SpecCalls == InitCalls /\ [][NextCalls]_vars

\* a call that has begun goes on until it returns
SpecCallsFair ==
    SpecCalls /\ WF_vars(CallHoqFirstGuess \/ CallHoqIteration \/ CallHoqReturn)

\* ------------------------------------------------------------------------
\* Properties
\* ------------------------------------------------------------------------
IsMapOver(m) == DOMAIN m = Pixels
NonNegative(m) == \A p \in Pixels : m[p] >= 0

\* the discharge the pixels upstream of p have at the end of the sub-step:
\* the kinematic result on kinematic pixels, the MCT result on MCT pixels
UpdatedInflow(p) ==
    LET ups == UpstreamOf(var.LddChan, p)
    IN  SumOver([u \in ups |-> IF var.IsChannelKinematic[u] THEN trace.ChanQKinOutEnd[u]
                                ELSE trace.ChanQMCTOutEnd[u]], ups)

\* C1: after every routing sub-step the committed discharge ChanQ and storage
\* ChanM3 are not negative at any pixel, nor are the pair KINRouting returned
\* and the q11 and V11 MCTRouting_single returned
C1_NonNegativeAfterRouting ==
    subSteps > 0 =>
        /\ NonNegative(var.ChanQ) /\ NonNegative(var.ChanM3)
        /\ NonNegative(var.ChanQKin) /\ NonNegative(var.ChanM3Kin)
        /\ IsMapOver(var.Chan2QKin) => NonNegative(var.Chan2QKin) /\ NonNegative(var.Chan2M3Kin)
        /\ NonNegative(trace.ChanQKinOutEnd) /\ NonNegative(trace.ChanM3KinEnd)
        /\ NonNegative(trace.ChanQMCTOutEnd)

\* an MCT sub-step in which water was taken from an MCT pixel and its outflow
\* is the smallest the router returns
C1_Witness ==
    /\ subSteps > 0 /\ trace.mct
    /\ \E p \in Pixels : var.IsChannelMCT[p] /\ var.ChanQ[p] = eps /\ var.ChanM3[p] >= 0

C4_EveryModeRoutes ==
    subSteps > 0 =>
        /\ trace.kin >= 1 /\ trace.committed /\ trace.summed = 1
        /\ (~option.InitLisflood /\ option.MCTRouting) => trace.mct
        /\ (~option.InitLisflood /\ option.SplitRouting) => trace.split

\* C5: the Courant and Reynolds numbers at time t of every MCT pixel are the
\* numbers the sub-step before returned for it, the initial ones in the first
C5_MCTStateCarried ==
    trace.mct =>
        \A p \in Pixels : var.IsChannelMCT[p] =>
            trace.Cm0[p] = trace.CmBefore[p] /\ trace.Dm0[p] = trace.DmBefore[p]

\* the routing state the two runs are compared on
RoutingState(v) ==
    <<v.ChanQ, v.ChanM3, v.ChanQKin, v.ChanM3Kin, v.Chan2QKin, v.Chan2M3Kin,
      v.PrevQMCTin, v.PrevCm0, v.PrevDm0>>

\* the state a warm start reads back, with the discharge that is reported
PersistedState(v) == <<v.ChanQ, v.ChanM3, v.PrevQMCTin, v.PrevCm0, v.PrevDm0>>

\* C6: an MCT run without split routing that is stopped after a time step and
\* started again from the state it wrote has the same discharge, storage and
\* MCT state as the uninterrupted run at every later sub-step
C6_WarmStartEqualsContinuous ==
    MCTRun(option) => PersistedState(warm.v) = PersistedState(var)

\* a run that was stopped, started again and has routed a sub-step since, with
\* water in an MCT pixel
C6_Witness ==
    /\ MCTRun(option) /\ warm.restarts > 0 /\ subSteps > warm.restarts
    /\ \E p \in Pixels : var.IsChannelMCT[p] /\ var.ChanQ[p] > eps /\ var.PrevCm0[p] # SC

\* C7: the pair KINRouting returns satisfies ChanM3Kin = ChanLength *
\* ChannelAlpha * ChanQKin ** Beta at every kinematic pixel, and after
\* SplitRouting so do the main channel and the floodplain line
C7_StorageMatchesDischarge ==
    subSteps > 0 =>
        /\ (trace.kin >= 1 /\ ~trace.mct) =>
               \A p \in Pixels :
                   var.ChanM3Kin[p] = ChanLength[p] * var.ChannelAlpha[p] * PowBeta(var.ChanQKin[p])
        /\ trace.mct =>
               \A p \in Pixels : var.IsChannelKinematic[p] =>
                   trace.ChanM3KinEnd[p]
                       = ChanLength[p] * var.ChannelAlpha[p] * PowBeta(trace.ChanQKinOutEnd[p])
        /\ trace.split =>
               \A p \in Pixels :
                   var.Chan2M3Kin[p]
                       = ChanLength[p] * var.ChannelAlpha2[p] * PowBeta(var.Chan2QKin[p])

\* a kinematic sub-step and a split sub-step that left water in the channel
C7_Witness ==
    /\ subSteps > 0 /\ trace.kin >= 1
    /\ \E p \in Pixels : var.IsChannelKinematic[p] /\ var.ChanQKin[p] > 1 /\ var.ChanM3Kin[p] > 0

\* C8: after a split-routing sub-step ChanQ = max(ChanQKin + Chan2QKin -
\* QLimit, 0) and ChanM3 = ChanM3Kin + Chan2M3Kin - Chan2M3Start at every
\* pixel, so that ChanQ >= 0 and ChanQ + QLimit >= ChanQKin
C8_SplitRecombination ==
    trace.split =>
        \A p \in Pixels :
            /\ var.ChanQ[p] = Max(var.ChanQKin[p] + var.Chan2QKin[p] - var.QLimit[p], 0)
            /\ var.ChanM3[p] = var.ChanM3Kin[p] + var.Chan2M3Kin[p] - var.Chan2M3Start[p]
            /\ var.ChanQ[p] >= 0
            /\ var.ChanQ[p] + var.QLimit[p] >= var.ChanQKin[p]

\* a split sub-step with water over bankfull in the floodplain line
C8_Witness ==
    /\ trace.split
    /\ \E p \in Pixels : var.Chan2QKin[p] > var.QLimit[p] /\ var.ChanQ[p] > 0

\* C9: with repMBTs on the routing state is, at initialisation and after
\* every sub-step, the one of the same run with repMBTs off
C9_MassBalanceKeepsRoutingState ==
    option.repMBTs => RoutingState(var) = RoutingState(noMB)

\* the batch of the routing order that holds pixel i
BatchOf(mr, i) == CHOOSE k \in 1..Len(mr.order_start_stop) : i \in OrderPixels(mr, k)

\* C3: in the routing order mctWave builds for a drainage forest every pixel
\* with a downstream pixel has a smaller routing order than that pixel and is
\* in an earlier batch, so no batch holds a pixel and its downstream pixel
C3_UpstreamInEarlierBatch ==
    pc = "run" =>
        \A i \in DOMAIN mct_river_router.downstream_lookup :
            LET down == mct_river_router.downstream_lookup[i]
            IN  down # 0 =>
                    /\ mct_river_router.routing_order[i] < mct_river_router.routing_order[down]
                    /\ BatchOf(mct_river_router, i) < BatchOf(mct_river_router, down)

\* a routing order of two batches, two pixels of the first draining to the second
C3_Witness ==
    /\ pc = "run"
    /\ Len(mct_river_router.order_start_stop) = 2
    /\ Cardinality(OrderPixels(mct_river_router, 1)) = 2
    /\ \A i \in OrderPixels(mct_river_router, 1) : mct_river_router.downstream_lookup[i] # 0

\* C10: whatever the order in which the pixels of a batch are routed, the
\* batch ends with the q11, V11, Cm, Dm and the inflow q01 of the next batch
\* that routing its pixels in the order of pixels_ordered gives
C10_BatchOrderIrrelevant ==
    (pc = "batch" /\ loop.todo = {} /\ loop.order <= Len(mct_river_router.order_start_stop)) =>
        MCTOrderEnd(loop.s.v, loop.L)
            = MCTOrders(loop.s.v, loop.start, mct_river_router, 1, loop.order)

\* a batch of two pixels with water in them has been routed
C10_Witness ==
    /\ pc = "batch" /\ loop.todo = {}
    /\ loop.order <= Len(mct_river_router.order_start_stop)
    /\ Cardinality(OrderPixels(mct_river_router, loop.order)) >= 2
    /\ \A i \in OrderPixels(mct_river_router, loop.order) :
           loop.L.q11[i] > 0 /\ loop.L.Cm0[i] # loop.start.Cm0[i]

\* C11: the schedule of mctWave is a partition into contiguous ranges:
\* pixels_ordered holds every pixel once, sorted by routing order and then by
\* pixel; the first row of order_start_stop starts at 0, every row stops where
\* the next starts, the last stops at the number of pixels, no row is empty,
\* and row k holds exactly the pixels of routing order k (rows and orders
\* counted from 0 in the program, rows from 1 here)
C11_ScheduleIsPartition ==
    pc = "run" =>
        LET mr == mct_river_router
            po == mr.pixels_ordered
            oss == mr.order_start_stop
            n == Len(mr.routing_order)
        IN  /\ Len(po) = n
            /\ {po[k] : k \in 1..n} = 1..n
            /\ \A k, l \in 1..n : k < l =>
                   \/ mr.routing_order[po[k]] < mr.routing_order[po[l]]
                   \/ mr.routing_order[po[k]] = mr.routing_order[po[l]] /\ po[k] < po[l]
            /\ Len(oss) >= 1
            /\ oss[1][1] = 0
            /\ oss[Len(oss)][2] = n
            /\ \A k \in 1..Len(oss) :
                   /\ oss[k][1] < oss[k][2]
                   /\ k < Len(oss) => oss[k][2] = oss[k + 1][1]
                   /\ {po[i] : i \in (oss[k][1] + 1)..oss[k][2]}
                          = {i \in 1..n : mr.routing_order[i] = k - 1}
            /\ \A i \in 1..n : mr.routing_order[i] + 1 \in 1..Len(oss)

\* a schedule of three rows, its pixels not in pixel order
C11_Witness ==
    /\ pc = "run"
    /\ Len(mct_river_router.order_start_stop) = 3
    /\ mct_river_router.pixels_ordered # <<1, 2, 3>>

\* the number of pixels between pixel p and the pit it drains to
RECURSIVE HopsToPit(_, _)
HopsToPit(ldd, p) == IF ldd[p] = NoPix THEN 0 ELSE 1 + HopsToPit(ldd, ldd[p])

\* C12: the routing order of a pixel is the largest distance from an outlet
\* in the whole network minus the distance of the pixel from its own outlet;
\* a pixel without downstream pixel has distance 0, so the outlets of all
\* trees have the highest order and are in the last row of the schedule
C12_OrderIsMaxMinusDistance ==
    pc = "run" =>
        LET mr == mct_river_router
            px == MCTPixSeq(var.IsChannelKinematic)
            dist == [i \in 1..Len(px) |-> HopsToPit(var.LddMCT, px[i])]
            far == CHOOSE m \in {dist[i] : i \in 1..Len(px)} : \A i \in 1..Len(px) : dist[i] <= m
        IN  /\ DOMAIN mr.routing_order = 1..Len(px)
            /\ \A i \in 1..Len(px) :
                   /\ mr.routing_order[i] = far - dist[i]
                   /\ mr.downstream_lookup[i] = 0 =>
                          /\ dist[i] = 0
                          /\ \A j \in 1..Len(px) : mr.routing_order[j] <= mr.routing_order[i]
                          /\ i \in OrderPixels(mr, Len(mr.order_start_stop))

\* a forest of two trees of different height: both outlets in the last row
C12_Witness ==
    /\ pc = "run"
    /\ Len(mct_river_router.order_start_stop) = 2
    /\ Cardinality({i \in DOMAIN mct_river_router.downstream_lookup :
                        mct_river_router.downstream_lookup[i] = 0}) = 2

\* the value an initial-value map selects at pixel p
SentinelOr(InitValue, default, p) == IF InitValue[p] = NoValue THEN default ELSE InitValue[p]

\* the maps routing.initial and initialMCT read, but for PrevDischarge
InitialValuesTaken ==
    /\ pc # "initial" =>
           \A p \in Pixels :
               /\ var.TotalCrossSectionArea[p]
                      = SentinelOr(binding.TotalCrossSectionAreaInitValue,
                                   TotalCrossSectionAreaHalfBankFull[p], p)
    /\ (pc = "initialSecond" /\ option.SplitRouting) =>
           \A p \in Pixels :
               /\ var.CrossSection2Area[p] = SentinelOr(binding.CrossSection2AreaInitValue, 0, p)
               /\ var.Sideflow1Chan[p] = SentinelOr(binding.PrevSideflowInitValue, 0, p)
    /\ (pc = "run" /\ option.MCTRouting) =>
           \A p \in Pixels :
               /\ var.PrevQMCTin[p] = SentinelOr(binding.PrevQMCTinInitValue, 0, p)
               /\ var.PrevQMCTout[p] = SentinelOr(binding.PrevQMCToutInitValue, 0, p)
               /\ var.PrevCm0[p] = SentinelOr(binding.PrevCmMCTInitValue, SC, p)
               /\ var.PrevDm0[p] = SentinelOr(binding.PrevDmMCTInitValue, 0, p)

\* the discharge PrevDischarge selects at pixel p, ChanQKin being the one
\* routing.initial computed
PrevDischargeOr(p) ==
    SentinelOr(binding.PrevDischarge,
               initial(option, binding, Ldd, IsChannelMCT).ChanQKin[p], p)

\* C13 as stated: when the initialisation is over every initial-state map has
\* selected its default where it holds -9999 and its own value elsewhere, ChanQ
\* being ChanQKin or PrevDischarge at every pixel
C13_SentinelSelectsDefault ==
    /\ InitialValuesTaken
    /\ pc = "run" => \A p \in Pixels : var.ChanQ[p] = PrevDischargeOr(p)

\* C13, amended: as above, but ChanQ is ChanQKin or PrevDischarge after
\* routing.initial, and when the initialisation is over only outside the MCT
\* pixels of a run with MCT routing: at those initialMCT has put PrevQMCTout
\* (0 without a supplied value) in its place
C13_SentinelSelectsDefaultButChanQ ==
    /\ InitialValuesTaken
    /\ pc = "initialSecond" => \A p \in Pixels : var.ChanQ[p] = PrevDischargeOr(p)
    /\ pc = "run" =>
           \A p \in Pixels :
               var.ChanQ[p] = IF option.MCTRouting /\ ~var.IsChannelKinematic[p]
                              THEN var.PrevQMCTout[p]
                              ELSE PrevDischargeOr(p)

\* an MCT run initialised from maps with a value at one MCT pixel and -9999 at
\* another
C13_Witness ==
    /\ pc = "run" /\ option.MCTRouting
    /\ \E p, r \in Pixels :
           /\ IsChannelMCT[p] /\ IsChannelMCT[r]
           /\ binding.PrevCmMCTInitValue[p] = NoValue /\ var.PrevCm0[p] = SC
           /\ binding.PrevCmMCTInitValue[r] # NoValue /\ var.PrevCm0[r] # SC
           /\ binding.PrevDischarge[r] # NoValue /\ var.ChanQ[r] # binding.PrevDischarge[r]

\* C19 as stated: after routing.initial ChanGrad is not below ChanGradMin at
\* any pixel, MCT pixels included
C19_SlopeNotBelowMinimum ==
    pc # "initial" => \A p \in Pixels : var.ChanGrad[p] >= ChanGradMin[p]

\* C19, amended: after routing.initial ChanGrad is the larger of the slope map
\* and ChanGradMin, and so not below ChanGradMin, at every pixel but the MCT
\* pixels of a run with MCT routing; at those it is that value or the cap of
\* the MCT slope, whichever is smaller, and it is below ChanGradMin where
\* ChanGradMin is above the cap
C19_SlopeNotBelowMinimumOutsideMCT ==
    pc # "initial" =>
        \A p \in Pixels :
            IF option.MCTRouting /\ IsChannelMCT[p]
            THEN /\ var.ChanGrad[p] = Min(Max(ChanGradMap[p], ChanGradMin[p]), MCTGradMax)
                 /\ var.ChanGrad[p] >= Min(ChanGradMin[p], MCTGradMax)
            ELSE /\ var.ChanGrad[p] = Max(ChanGradMap[p], ChanGradMin[p])
                 /\ var.ChanGrad[p] >= ChanGradMin[p]

\* a run with a kinematic pixel whose slope is raised to the minimum and an MCT
\* pixel whose slope is capped below its minimum
C19_Witness ==
    /\ pc = "initialSecond" /\ option.MCTRouting
    /\ \E p, r \in Pixels :
           /\ ~IsChannelMCT[p] /\ ChanGradMap[p] < ChanGradMin[p]
           /\ var.ChanGrad[p] = ChanGradMin[p]
           /\ IsChannelMCT[r] /\ var.ChanGrad[r] = MCTGradMax /\ ChanGradMin[r] > MCTGradMax

\* C14: after SplitRouting the volume of the floodplain line is not below its
\* bankfull-start volume at any pixel, so the cross-section area above bankfull
\* is not negative and the combined storage is not below the main-channel storage
C14_FloodplainFloor ==
    trace.split =>
        \A p \in Pixels :
            /\ var.Chan2M3Kin[p] >= var.Chan2M3Start[p]
            /\ var.CrossSection2Area[p] >= 0
            /\ var.ChanM3Kin[p] + var.Chan2M3Kin[p] - var.Chan2M3Start[p] >= var.ChanM3Kin[p]

\* a split step that left one floodplain line at its floor and another above it
C14_Witness ==
    /\ trace.split
    /\ \E p, r \in Pixels :
           /\ var.Chan2M3Kin[p] = var.Chan2M3Start[p] /\ var.CrossSection2Area[p] = 0
           /\ var.Chan2M3Kin[r] > var.Chan2M3Start[r] /\ var.CrossSection2Area[r] > 0

\* C15: SplitRouting gives the main channel the whole sideflow of a pixel when
\* the sideflow is smaller than the threshold or the combined storage does not
\* exceed M3Limit, and otherwise the part ChanM3Kin / (ChanM3Kin + Chan2M3Kin)
\* of it (none when that sum is not positive); the floodplain line gets the rest
C15_SideflowPartition ==
    (pc = "call" /\ call.op = "SplitRouting" /\ call.done) =>
        \A p \in Pixels :
            LET S == call.SideflowChan[p]
                total == call.v.ChanM3Kin[p] + call.v.Chan2M3Kin[p]
                over == total - call.v.Chan2M3Start[p] > call.v.M3Limit[p]
                main == call.out.Sideflow1Chan[p]
                flood == call.Sideflow2Chan[p]
                             - Div(call.v.Chan2QStart[p] * SC, ChanLength[p])
            IN  /\ main + flood = S
                /\ Abs(S) < SideflowMin => main = S
                /\ (Abs(S) >= SideflowMin /\ ~over) => main = S
                /\ (Abs(S) >= SideflowMin /\ over /\ total > 0) =>
                       main = Div(Div(call.v.ChanM3Kin[p] * SC, total) * S, SC)
                /\ (Abs(S) >= SideflowMin /\ over /\ total <= 0) => main = 0
                /\ total <= 0 => call.SideflowRatio[p] = 0

\* a call with a sideflow under the threshold at one pixel, kept whole by the
\* main channel although the storage exceeds M3Limit, and a shared one at another
C15_Witness ==
    /\ pc = "call" /\ call.op = "SplitRouting" /\ call.done
    /\ \E p, r \in Pixels :
           /\ call.SideflowChan[p] # 0 /\ Abs(call.SideflowChan[p]) < SideflowMin
           /\ call.v.ChanM3Kin[p] + call.v.Chan2M3Kin[p] - call.v.Chan2M3Start[p]
                  > call.v.M3Limit[p]
           /\ call.out.Sideflow1Chan[p] = call.SideflowChan[p]
           /\ Abs(call.SideflowChan[r]) >= SideflowMin
           /\ call.out.Sideflow1Chan[r] # call.SideflowChan[r]
           /\ call.out.Sideflow1Chan[r] # 0

\* C16: in MCTRouting_single the first guess of the outflow is q10 + (q01 - q00)
\* or 0 when that is negative; in both passes every reference discharge that is
\* exactly 0 is eps when hoq is called with it; an outflow below 0 leaves a
\* pass as eps, not as 0; and the call returns
C16_DegenerateDischarges ==
    (pc = "call" /\ call.op = "MCTRouting_single") =>
        LET a == call.a IN
        /\ (call.stage = "pass" /\ call.i = 0) =>
               /\ call.q11 >= 0
               /\ call.q11 = Max(a.q10 + (a.q01 - a.q00), 0)
        /\ (call.stage # "guess" /\ call.i > 0) =>
               /\ call.qmx0 # 0 /\ call.qmx1 # 0 /\ call.qm1 # 0
               /\ Div(a.q00 + a.q01, 2) = 0 => call.qmx0 = eps
               /\ Div(a.q00 + a.q01, 2) # 0 => call.qmx0 = Div(a.q00 + a.q01, 2)
               /\ call.sum < 0 => call.q11 = eps
               /\ call.sum >= 0 => call.q11 = call.sum
        /\ call.done =>
               /\ call.i = 2
               /\ call.out = MCTRouting_single(a.q10, a.q01, a.q00, a.ql, a.Cm0, a.Dm0, a.dt,
                                               a.xpix, a.s0, a.Balv, a.ANalv, a.Nalv)
               /\ call.out.q11 >= 0

\* a call whose first guess was negative, whose reference discharge at t+dt was
\* 0 and whose outflow from the coefficients was negative
C16_Witness ==
    /\ pc = "call" /\ call.op = "MCTRouting_single" /\ call.done
    /\ call.a.q10 + (call.a.q01 - call.a.q00) < 0
    /\ call.a.q00 + call.a.q01 # 0
    /\ call.qm1 = eps
    /\ call.sum < 0 /\ call.out.q11 = eps

\* the loop of hoq stops at the first correction smaller than eps and not
\* otherwise, runs at most max_tries - 1 times, and hoq returns the last depth
HoqLoopStops ==
    (pc = "call" /\ call.op = "hoq") =>
        /\ call.iterations <= max_tries - 1
        /\ call.iterations > 0 => call.broke = (Abs(call.dy) < eps)
        /\ (call.stage = "loop" /\ ~call.broke) => call.tries = call.iterations + 1
        /\ call.done =>
               /\ call.out = call.y
               /\ call.broke =>
                      call.out = hoq(call.a.q, call.a.s0, call.a.Balv, call.a.ANalv, call.a.Nalv)
               /\ call.broke \/ call.iterations = max_tries - 1

\* C17 as stated: a call of hoq whose corrections never fell below eps returns
\* after max_tries = 1000 iterations
C17_StopsAfterMaxTries ==
    (pc = "call" /\ call.op = "hoq" /\ call.done /\ ~call.broke) =>
        call.iterations = max_tries

\* C17, amended: every call of hoq returns; its loop stops at the first
\* correction below eps or after max_tries - 1 = 999 iterations, whichever comes
\* first, and without convergence the last depth is returned
C17_HoqTerminates ==
    /\ []HoqLoopStops
    /\ (pc = "call" /\ call.op = "hoq") ~> (call.op = "hoq" /\ call.done)

\* a call that returned its last depth without having converged
C17_Witness ==
    /\ pc = "call" /\ call.op = "hoq" /\ call.done /\ ~call.broke
    /\ call.iterations = max_tries - 1
    /\ Abs(call.dy) >= eps
    /\ call.out = call.y

\* the pixels of an array compressed by the mask: those the mask flags, in
\* pixel order
MaskPixels(mask) == SortedSeq({p \in Pixels : mask[p]})

\* C18: get_mct_pix returns the entries at the pixels flagged MCT, in pixel
\* order, so that its position i is pixel i of the router built from the MCT
\* mask; put_mct_pix puts an array back on those pixels and 0 on all others;
\* and get_mct_pix(put_mct_pix(v)) = v
C18_CompressedArraysAreMCTPixels ==
    (pc = "call" /\ call.op = "mct_pix" /\ call.done) =>
        LET px == MaskPixels(call.mctmask) IN
        /\ call.y = [i \in 1..Len(px) |-> call.var[px[i]]]
        /\ call.exploded = [p \in Pixels |-> IF call.mctmask[p] THEN call.var[p] ELSE 0]
        /\ call.back = call.y

\* the round trip alone, over the pixels get_mct_pix does return
MctPixRoundTrip ==
    (pc = "call" /\ call.op = "mct_pix" /\ call.done) =>
        /\ call.back = call.y
        /\ Len(call.y) = Cardinality({p \in Pixels : ~call.IsChannelKinematic[p]})
        /\ \A p \in Pixels : call.IsChannelKinematic[p] => call.exploded[p] = 0

\* C22: after a kinematic and MCT sub-step PrevQMCTin is, at every pixel, the
\* sum of the discharges ChanQ committed at the end of that sub-step at its
\* direct upstream channel pixels, so that the inflow at time t of the next
\* sub-step is the inflow at time t+dt of this one
C22_PrevInflowIsCommittedInflow ==
    (pc = "run" /\ subSteps > 0 /\ trace.mct) =>
        var.PrevQMCTin = upstream(var.LddChan, var.ChanQ)

\* C23: in a run with InitLisflood every sub-step, the first one too, routes
\* all channel pixels with the kinematic wave, also with MCT routing on: when
\* the lateral inflow is computed IsChannelKinematic is IsChannel, and the
\* lateral inflow handed to the kinematic router is
\* SideflowChanM3 / (ChanLength * DtRouting) at every channel pixel
C23_InitRunRoutesAllChannelPixels ==
    (pc = "run" /\ subSteps > 0 /\ option.InitLisflood) =>
        /\ trace.kin >= 1
        /\ trace.SideflowMask = IsChannel
        /\ \A p \in Pixels :
               IsChannel[p] =>
                   trace.SideflowChan[p]
                       = Div(trace.SideflowChanM3[p] * SC, ChanLength[p] * var.DtRouting)

\* what the code does hold: from the second call of routing.dynamic on, and
\* in every call of a run without MCT routing
InitRunRoutesAllChannelPixelsLater ==
    (pc = "run" /\ option.InitLisflood /\ (subSteps > 1 \/ (subSteps > 0 /\ ~option.MCTRouting))) =>
        /\ trace.kin >= 1
        /\ trace.SideflowMask = IsChannel
        /\ \A p \in Pixels :
               trace.SideflowChan[p]
                   = Div(trace.SideflowChanM3[p] * SC, ChanLength[p] * var.DtRouting)

\* the storage of the channels at the end of a sub-step, per catchment in a
\* run with split routing and in total in the others
StorageAtEnd(opt, v, ldd) ==
    IF ~opt.InitLisflood /\ opt.SplitRouting
    THEN CatchmentSum(ldd, [p \in Pixels |->
             v.ChanM3Kin[p] + v.Chan2M3Kin[p] - v.Chan2M3Start[p]])
    ELSE TotalOf(v.ChanM3)

\* C24: with repMBTs on AddedTRUN is, after every sub-step, the water added to
\* the catchment in the sub-steps of the time step made so far (runoff and
\* inflow less evaporation and water use), hence in the last sub-step the sum
\* over all sub-steps of the time step; StorageStepINIT and the closure error
\* are left alone in every sub-step but the last, and in the last one
\* StorageStepINIT is advanced to the storage at its end
C24_AddedWaterOfTheTimeStep ==
    (pc = "run" /\ subSteps > 0 /\ option.repMBTs /\ ~trace.failed) =>
        /\ var.AddedTRUN = trace.addedSum
        /\ trace.step # var.NoRoutSteps - 1 =>
               /\ var.StorageStepINIT = trace.StorageStepINITBefore
               /\ var.MBErrorSplitRoutingM3 = trace.MBErrorSplitRoutingM3Before
        /\ (trace.step = var.NoRoutSteps - 1
              /\ ~option.simulateReservoirs /\ ~option.simulateLakes) =>
               var.StorageStepINIT = StorageAtEnd(option, var, Ldd)

\* the last of two sub-steps of a time step, water added in both
C24_Witness ==
    /\ pc = "run" /\ option.repMBTs /\ ~trace.failed
    /\ var.NoRoutSteps = 2 /\ subSteps = 2 /\ trace.step = 1
    /\ \E p \in Pixels : var.AddedTRUN[p] = 900

\* the whole number nearest to d / c, the even one of two equally near
NearestWhole(d, c) ==
    CHOOSE n \in 0..d :
        \/ 2 * Abs(d - n * c) < c
        \/ 2 * Abs(d - n * c) = c /\ n % 2 = 0

\* C25: NoRoutSteps is max(1, round(DtSec / DtSecChannel)), and 1 in a run
\* with InitLisflood; it is at least 1 for all positive DtSec and DtSecChannel,
\* and DtRouting is DtSec / NoRoutSteps (to the unit of time of the model:
\* NoRoutSteps sub-steps of DtRouting cover DtSec, and none of one unit more
\* does)
C25_SubStepsCoverTheTimeStep ==
    (pc # "initial" /\ binding.DtSec > 0 /\ binding.DtSecChannel > 0) =>
        /\ var.NoRoutSteps = IF option.InitLisflood THEN 1
                             ELSE Max(1, NearestWhole(binding.DtSec, binding.DtSecChannel))
        /\ var.NoRoutSteps >= 1
        /\ var.NoRoutSteps * var.DtRouting <= var.DtSec
        /\ var.DtSec < var.NoRoutSteps * (var.DtRouting + 1)
        /\ (var.DtSec % var.NoRoutSteps = 0) => var.NoRoutSteps * var.DtRouting = var.DtSec

\* a time step of two and a half channel time steps: two sub-steps, and no
\* whole number of units in a sub-step
C25_Witness ==
    /\ pc = "run" /\ ~option.InitLisflood
    /\ 2 * var.DtSec = 5 * var.DtSecChannel
    /\ var.NoRoutSteps = 2
    /\ var.DtSec % var.NoRoutSteps # 0

\* C26: the time interval dt of the MCT update of a pixel is the routing
\* sub-step DtRouting = DtSec / NoRoutSteps, with which the lateral inflow of
\* the sub-step is turned into a rate and the kinematic router is built, for
\* every pair of DtSec and DtSecChannel
C26_MCTUsesTheRoutingSubStep ==
    (pc = "run" /\ subSteps > 0 /\ trace.mct) =>
        /\ river_router.dt = var.DtRouting
        /\ trace.dt = var.DtRouting

\* the two are the same time interval where DtSec is a whole number of
\* DtSecChannel
MCTUsesTheRoutingSubStepOfWholeRatios ==
    (pc = "run" /\ subSteps > 0 /\ trace.mct /\ var.DtSec % var.DtSecChannel = 0) =>
        /\ river_router.dt = var.DtRouting
        /\ trace.dt = var.DtRouting

\* C27: in every sub-step of a run with split routing the sideflow of the main
\* channel and the sideflow of the floodplain line add up, at every pixel and
\* for a sideflow of either sign, to SideflowChan + Chan2QStart / ChanLength
C27_SplitConservesSideflow ==
    (pc = "run" /\ subSteps > 0 /\ trace.split) =>
        \A p \in Pixels :
            var.Sideflow1Chan[p] + trace.Sideflow2Chan[p]
                = trace.SideflowChan[p] + Div(var.Chan2QStart[p] * SC, ChanLength[p])

\* a sub-step in which a pixel loses water, its main channel bearing a part of
\* the loss only
C27_Witness ==
    /\ pc = "run" /\ subSteps > 0 /\ trace.split
    /\ \E p \in Pixels :
           /\ trace.SideflowChan[p] < 0
           /\ var.Sideflow1Chan[p] # trace.SideflowChan[p]
           /\ var.Chan2QStart[p] > 0

\* what a sub-step of kinematic and MCT routing commits, what it derives from
\* the state at its end, and the terms of the water balance
MCTCommitted == {"ChanQ", "ChanM3", "PrevQMCTin", "PrevCm0", "sumDisDay"}
MCTDerived == {"FlowVelocity", "TravelDistance", "prevDm0"}
BalanceTerms ==
    {"AddedTRUN", "StorageStepINIT", "DischargeM3StructuresIni", "MBErrorSplitRoutingM3",
     "OutletDischargeErrorSplitRouting"}

\* C28: a sub-step of a run with kinematic and MCT routing (InitLisflood and
\* SplitRouting off) leaves ChanQKin and ChanM3Kin as they were, and with them
\* everything but ChanQ, ChanM3, PrevQMCTin, PrevCm0 and sumDisDay (the
\* attribute prevDm0 of the MCT branch and the terms of the water balance
\* apart); the flow velocity and the travel distance of every sub-step are
\* those of the kinematic discharge and storage of the initialisation
C28_MCTKeepsKinematicState ==
    (pc = "run" /\ subSteps > 0 /\ MCTRun(option) /\ ~trace.failed) =>
        LET ini == RoutingInit(option, binding, Ldd, IsChannelMCT)
            FV == FlowVelocity(ini.ChanQKin, ini.ChanM3Kin)
        IN  /\ trace.mct
            /\ var.ChanQKin = trace.before.ChanQKin
            /\ var.ChanM3Kin = trace.before.ChanM3Kin
            /\ \A f \in (DOMAIN var) \ (MCTCommitted \cup MCTDerived \cup BalanceTerms) :
                   var[f] = trace.before[f]
            /\ var.ChanQKin = ini.ChanQKin
            /\ var.ChanM3Kin = ini.ChanM3Kin
            /\ var.FlowVelocity = FV
            /\ var.TravelDistance = [p \in Pixels |-> FV[p] * var.DtSec]

\* the second sub-step of such a run: the discharge of a kinematic pixel has
\* left the kinematic discharge of the initialisation, the velocity has not
C28_Witness ==
    /\ pc = "run" /\ subSteps = 2 /\ MCTRun(option) /\ trace.mct
    /\ \E p \in Pixels :
           /\ var.IsChannelKinematic[p]
           /\ var.ChanQ[p] # var.ChanQKin[p]
           /\ var.ChanQ[p] # trace.before.ChanQ[p]
           /\ var.FlowVelocity[p] > 0

\* C29: after any number of calls of snow.dynamic the snow cover of each of
\* the three zones is not negative (the initial covers, SnowFactor and the
\* precipitation being not negative), and the melt taken from a zone in a call
\* lies between 0 and the cover of the zone at the start of the call, whatever
\* the temperature and the season
C29_SnowCoverNotNegative ==
    (pc = "snow.dynamic" /\ call.op = "snow") =>
        \A i \in Zones :
            /\ call.SnowCoverS[i] >= 0
            /\ subSteps > 0 =>
                   /\ 0 <= call.zone.SnowMeltS[i]
                   /\ call.zone.SnowMeltS[i] <= call.zone.before[i]

\* a call in which one zone would melt more than it holds and is left bare,
\* and another would melt less than nothing and melts nothing
C29_Witness ==
    /\ pc = "snow.dynamic" /\ call.op = "snow" /\ subSteps > 0
    /\ \E i, j \in Zones :
           /\ call.zone.before[i] > 0 /\ call.zone.demand[i] > call.zone.before[i]
           /\ call.SnowCoverS[i] = 0
           /\ call.zone.before[j] > 0 /\ call.zone.demand[j] < 0
           /\ call.zone.SnowMeltS[j] = 0

SumOfZones(x) == x[1] + x[2] + x[3]

\* C30: in a call of snow.dynamic the precipitation of a zone is snow where
\* the zone is colder than TempSnow and rain otherwise, never both and never
\* neither; the cover of a zone becomes its cover before plus the snowfall
\* less the melt; Snow, Rain, SnowMelt and SnowCover of the pixel are the means
\* of the three zones, so that SnowCover is the mean cover before plus Snow
\* less SnowMelt (to the rounding of the means, and exactly where the means
\* are whole); and TotalPrecipitation grows by Snow + Rain
C30_SnowMassBalance ==
    (pc = "snow.dynamic" /\ call.op = "snow" /\ subSteps > 0) =>
        LET z == call.zone
            cold == [i \in Zones |-> call.Tavg + call.DeltaTSnow * (i - 2) < call.TempSnow]
            meanBefore == Div(SumOfZones(z.before), 3)
        IN  /\ \A i \in Zones :
                   /\ cold[i] => (z.SnowS[i] = Div(call.SnowFactor * call.Precipitation, SC)
                                    /\ z.RainS[i] = 0)
                   /\ ~cold[i] => (z.SnowS[i] = 0 /\ z.RainS[i] = call.Precipitation)
                   /\ call.SnowCoverS[i] = z.before[i] + z.SnowS[i] - z.SnowMeltS[i]
            /\ call.Snow = Div(SumOfZones(z.SnowS), 3)
            /\ call.Rain = Div(SumOfZones(z.RainS), 3)
            /\ call.SnowMelt = Div(SumOfZones(z.SnowMeltS), 3)
            /\ call.SnowCover = Div(SumOfZones(call.SnowCoverS), 3)
            /\ SumOfZones(call.SnowCoverS)
                   = SumOfZones(z.before) + SumOfZones(z.SnowS) - SumOfZones(z.SnowMeltS)
            /\ Abs(call.SnowCover - (meanBefore + call.Snow - call.SnowMelt)) <= 1
            /\ (SumOfZones(z.before) % 3 = 0 /\ SumOfZones(z.SnowS) % 3 = 0
                  /\ SumOfZones(z.SnowMeltS) % 3 = 0) =>
                   call.SnowCover = meanBefore + call.Snow - call.SnowMelt
            /\ call.TotalPrecipitation = call.TotalPrecipitationBefore + call.Snow + call.Rain

\* a call with precipitation in which the middle zone is at TempSnow and has
\* rain, the zone above it snow, and some snow melts
C30_Witness ==
    /\ pc = "snow.dynamic" /\ call.op = "snow" /\ subSteps > 0
    /\ call.Precipitation > 0
    /\ call.Tavg = call.TempSnow
    /\ call.zone.SnowS[1] > 0 /\ call.zone.RainS[2] > 0
    /\ call.SnowMelt > 0
    /\ call.TotalPrecipitation > call.TotalPrecipitationBefore
====
